---------------------------- MODULE Spec2Model ----------------------------
(***************************************************************************)
(* A model of the tk-data-preparer core: the length filter, the duplicate  *)
(* remover, the text cleaner and the pipeline that sequences them          *)
(* (src/tk_data_preparer/core), and of the application around it: the      *)
(* AppState with its observers, the presets and the ConfigPanel, the       *)
(* PipelineService and the wiring of main.py (src/tk_data_preparer/app).   *)
(*                                                                         *)
(* A text is a sequence of code points, each code point written as a short *)
(* ASCII name ("a", "A", "a_tilde", "fw_A", ...).  A cell value is a       *)
(* record [kind, s]: kind "str" carries the text s, kind "int" carries the *)
(* decimal text of a number, and the kinds "nan", "None" and "NA" are the  *)
(* three missing values pandas knows (float NaN, None, pd.NA).             *)
(*                                                                         *)
(* DataFrames live in a heap of objects (a sequence; a reference is an     *)
(* index into it), so that copies, aliases and in-place assignments of the *)
(* code are what they are in the code.                                     *)
(***************************************************************************)
EXTENDS Integers, Sequences, FiniteSets, TLC

VARIABLES
    heap,             \* the DataFrame objects allocated so far
    df,               \* reference of the caller's DataFrame (the argument)
    df0,              \* the content of the caller's DataFrame at call time
    target_column,    \* the column argument
    columns_to_clean, \* the cleaning scope argument, None or a list
    config,           \* the PipelineConfig (or the one stage config in use)
    pc,               \* position of the call
    current_df,       \* run's local variable current_df (a reference)
    metrics,          \* run's local variable metrics
    result,           \* what the call returned or raised
    stage_log,        \* the stage calls made so far, in order
    state,            \* the AppState object: its fields, _observers included
    configs,          \* the AppConfig objects allocated so far
    PRESET_CONFIGS,   \* core.config.PRESET_CONFIGS: preset key -> AppConfig reference
    panel,            \* the ConfigPanel: its config reference and its Tk variables
    call,             \* the application operation called last and what it delivered
    stack             \* the Python call stack of the handling in progress

\* the variables of the core functions and of the application around them
corevars == <<heap, df, df0, target_column, columns_to_clean, config, pc,
              current_df, metrics, result, stage_log>>

appvars == <<state, configs, PRESET_CONFIGS, panel, call, stack>>

vars == <<heap, df, df0, target_column, columns_to_clean, config, pc,
          current_df, metrics, result, stage_log,
          state, configs, PRESET_CONFIGS, panel, call, stack>>

-----------------------------------------------------------------------------
(* Bounds of the model                                                     *)

MaxRows == 3

MaxMinLength == 5

MaxCleanRows == 2

-----------------------------------------------------------------------------
(* Python's Optional: None, or a value                                     *)

None == <<>>

Some(x) == <<x>>

Get(o) == o[1]

\* no application object exists: the core functions are called on their own
NoApplication ==
    /\ state = None
    /\ configs = <<>>
    /\ PRESET_CONFIGS = <<>>
    /\ panel = None
    /\ call = None
    /\ stack = <<>>

\* Variant: truthiness decided by the content, as for a config class that
\* defined __bool__ or __len__ (an unset min_length would then be false).
TruthyByContent(o) ==
    /\ o # None
    /\ ~("min_length" \in DOMAIN Get(o) /\ Get(o).min_length = None)

\* bool(x) of an Optional[dataclass]: None is false; an instance of a
\* dataclass that defines neither __bool__ nor __len__ is true.
Truthy(o) == o # None

-----------------------------------------------------------------------------
(* Sequence helpers                                                        *)

RECURSIVE Flatten(_)
Flatten(ss) == IF ss = <<>> THEN <<>> ELSE Head(ss) \o Flatten(Tail(ss))

SeqMap(Op(_), s) == [i \in 1..Len(s) |-> Op(s[i])]

Range(s) == {s[i] : i \in 1..Len(s)}

SeqsUpTo(S, n) == UNION {[1..k -> S] : k \in 0..n}

Contains(s, x) == \E i \in 1..Len(s) : s[i] = x

-----------------------------------------------------------------------------
(* Text: code points and the str methods and Unicode functions used        *)

\* str.lower() on the code points of the model ("fw_A" is the fullwidth
\* letter U+FF21, "A_TILDE" is U+00C3).
LowerTable ==
    [A |-> "a", B |-> "b", D |-> "d", E |-> "e", F |-> "f", I |-> "i",
     J |-> "j", L |-> "l", M |-> "m", N |-> "n", O |-> "o", P |-> "p",
     R |-> "r", S |-> "s", U |-> "u", V |-> "v", X |-> "x",
     A_TILDE |-> "a_tilde", fw_A |-> "fw_a"]

LowerChar(c) == IF c \in DOMAIN LowerTable THEN LowerTable[c] ELSE c

str_lower(s) == SeqMap(LowerChar, s)

\* str.upper(): the inverse of the table; the ligature U+FB01 becomes "FI"
UpperChar(c) ==
    IF \E u \in DOMAIN LowerTable : LowerTable[u] = c
    THEN <<CHOOSE u \in DOMAIN LowerTable : LowerTable[u] = c>>
    ELSE IF c = "fi_lig" THEN <<"F", "I">> ELSE <<c>>

str_upper(s) == Flatten(SeqMap(UpperChar, s))

\* the code points the regex class \s matches: space, tab, U+00A0
Whitespace == {" ", "tab", "nbsp"}

\* the code points outside the ASCII range ("diaeresis" is U+00A8, the
\* spacing diaeresis; "comb_diaeresis" is U+0308)
NonAscii ==
    {"a_tilde", "A_TILDE", "fw_a", "fw_A", "fi_lig", "nbsp", "comb_tilde",
     "diaeresis", "comb_diaeresis"}

\* unicodedata.combining(ch) # 0
combining(c) == c \in {"comb_tilde", "comb_diaeresis"}

\* Canonical decomposition of one code point, and the decompositions that
\* are compatibility ones only (unicodedata).
CanonTable ==
    [a_tilde |-> <<"a", "comb_tilde">>, A_TILDE |-> <<"A", "comb_tilde">>]

\* (U+00A8 decomposes to a space followed by the combining diaeresis)
CompatTable ==
    [fw_a |-> <<"a">>, fw_A |-> <<"A">>, fi_lig |-> <<"f", "i">>, nbsp |-> <<" ">>,
     diaeresis |-> <<" ", "comb_diaeresis">>]

CanonChar(c) == IF c \in DOMAIN CanonTable THEN CanonTable[c] ELSE <<c>>

DecompChar(c) == IF c \in DOMAIN CompatTable THEN CompatTable[c] ELSE CanonChar(c)

\* Canonical composition of a starter and the combining mark after it.
ComposeTable ==
    (<<"a", "comb_tilde">> :> "a_tilde") @@ (<<"A", "comb_tilde">> :> "A_TILDE")

RECURSIVE Compose(_)
Compose(s) ==
    IF Len(s) < 2 THEN s
    ELSE IF <<s[1], s[2]>> \in DOMAIN ComposeTable
         THEN <<ComposeTable[<<s[1], s[2]>>]>> \o Compose(SubSeq(s, 3, Len(s)))
         ELSE <<s[1]>> \o Compose(Tail(s))

\* unicodedata.normalize(form, s) for the four forms
NFD(s) == Flatten(SeqMap(CanonChar, s))

NFC(s) == Compose(NFD(s))

NFKD(s) == Flatten(SeqMap(DecompChar, s))

NFKC(s) == Compose(NFKD(s))

-----------------------------------------------------------------------------
(* Cell values                                                             *)

Str(s) == [kind |-> "str", s |-> s]

IntVal(s) == [kind |-> "int", s |-> s]

\* a float, carried as its decimal text (str(1.0) = "1.0")
FloatVal(s) == [kind |-> "float", s |-> s]

NaN == [kind |-> "nan", s |-> <<>>]

PyNone == [kind |-> "None", s |-> <<>>]

NA == [kind |-> "NA", s |-> <<>>]

MissingKinds == {"nan", "None", "NA"}

\* pandas.isna(value)
isna(v) == v.kind \in MissingKinds

\* Series.astype(str) on one cell: str(value).  A missing value is rendered
\* as its literal: str(float("nan")) = "nan", str(None) = "None",
\* str(pd.NA) = "<NA>".
astype_str(v) ==
    CASE v.kind = "nan" -> <<"n", "a", "n">>
      [] v.kind = "None" -> <<"N", "o", "n", "e">>
      [] v.kind = "NA" -> <<"<", "N", "A", ">">>
      [] OTHER -> v.s

-----------------------------------------------------------------------------
(* DataFrames and the heap                                                 *)
(* A DataFrame is [columns, dtypes, rows]; dtypes maps each column to its  *)
(* pandas dtype ("object", "string", "int64"); a row is [index, cells],    *)
(* cells a function from the column names to values.  The index label of a *)
(* row is kept through selections, as pandas keeps it.                     *)

MkRow(i, cells) == [index |-> i, cells |-> cells]

len(d) == Len(d.rows)

Column(d, column) == [i \in 1..Len(d.rows) |-> d.rows[i].cells[column]]

HasColumn(d, column) == Contains(d.columns, column)

\* df[mask]: the rows whose mask entry is true, in order, as a new frame
BoolIndex(d, mask) ==
    LET RECURSIVE Pick(_)
        Pick(i) == IF i > Len(d.rows) THEN <<>>
                   ELSE (IF mask[i] THEN <<d.rows[i]>> ELSE <<>>) \o Pick(i + 1)
    IN [d EXCEPT !.rows = Pick(1)]

\* a new object holding d: the heap with it, and its reference
Alloc(h, d) == [heap |-> Append(h, d), ref |-> Len(h) + 1]

\* what a call returns (status "ok") or raises (status = the exception)
Returns(h, ref, m) == [heap |-> h, df |-> ref, metrics |-> m, status |-> "ok"]

Raises(h, exc) == [heap |-> h, df |-> None, metrics |-> <<>>, status |-> exc]

\* DataFrame.copy(): a new object with the same columns, rows and values
\* (cell values are immutable, so a deep and a shallow copy agree here)
\* Variant: no copy is made, the same object is used under a second name.
DataFrame_alias(h, ref) == [heap |-> h, ref |-> ref]

DataFrame_copy(h, ref) == Alloc(h, h[ref])

\* df[name] = series, in place: the column is replaced where it stands, or
\* appended as the last column when the frame has no column of that name
SetColumn(d, name, series, dtype) ==
    [columns |-> IF HasColumn(d, name) THEN d.columns ELSE Append(d.columns, name),
     dtypes |-> [c \in DOMAIN d.dtypes \cup {name} |->
                   IF c = name THEN dtype ELSE d.dtypes[c]],
     rows |-> [i \in 1..Len(d.rows) |->
                 [index |-> d.rows[i].index,
                  cells |-> [c \in DOMAIN d.rows[i].cells \cup {name} |->
                               IF c = name THEN series[i] ELSE d.rows[i].cells[c]]]]]

\* Variant: the auxiliary column is never dropped.
DropColumnForgotten(d, name) == d

\* DataFrame.drop(columns=[name]): a new frame without that column
DropColumn(d, name) ==
    [columns |-> SelectSeq(d.columns, LAMBDA c : c # name),
     dtypes |-> [c \in DOMAIN d.dtypes \ {name} |-> d.dtypes[c]],
     rows |-> [i \in 1..Len(d.rows) |->
                 [index |-> d.rows[i].index,
                  cells |-> [c \in DOMAIN d.rows[i].cells \ {name} |->
                               d.rows[i].cells[c]]]]]

-----------------------------------------------------------------------------
(* core/filtering.py                                                       *)

FilterConfig(min_length, drop_na) == [min_length |-> min_length, drop_na |-> drop_na]

\* Variant: the comparison is strict.
LengthMaskStrict(d, column, cfg) ==
    [i \in 1..Len(d.rows) |->
        LET v == d.rows[i].cells[column] IN
        \/ Len(astype_str(v)) > Get(cfg.min_length)
        \/ (~cfg.drop_na /\ isna(v))]

\* mask = df[column].astype(str).str.len() >= config.min_length
\* if not config.drop_na: mask |= df[column].isna()
LengthMask(d, column, cfg) ==
    [i \in 1..Len(d.rows) |->
        LET v == d.rows[i].cells[column] IN
        \/ Len(astype_str(v)) >= Get(cfg.min_length)
        \/ (~cfg.drop_na /\ isna(v))]

\* Variant: the missing rows are kept by concatenating them to the rows
\* that pass the length test, so a missing row that passes it comes twice.
FilterRowsConcat(d, column, cfg) ==
    LET long == BoolIndex(d, [i \in 1..Len(d.rows) |->
                    Len(astype_str(d.rows[i].cells[column])) >= Get(cfg.min_length)])
        na == BoolIndex(d, [i \in 1..Len(d.rows) |->
                    ~cfg.drop_na /\ isna(d.rows[i].cells[column])])
    IN [d EXCEPT !.rows = long.rows \o na.rows]

\* df[mask]
FilterRows(d, column, cfg) == BoolIndex(d, LengthMask(d, column, cfg))

\* a copy of the object just allocated: the `.copy()` after a selection
CopyOf(a) == DataFrame_copy(a.heap, a.ref)

\* early return: df.copy() and the metrics of a filter without threshold
FilterNoThreshold(c) ==
    Returns(c.heap, c.ref, [removed_rows |-> 0, reason |-> "no min_length set"])

\* the metrics and the return, c holding df_filtrado
FilterReturn(tamanho_anterior, c, cfg) ==
    Returns(c.heap, c.ref,
            [removed_rows |-> tamanho_anterior - len(c.heap[c.ref]),
             remaining_rows |-> len(c.heap[c.ref]),
             min_length |-> Get(cfg.min_length),
             drop_na |-> cfg.drop_na])

\* Variant: without a threshold the drop_na flag still acts, and the rows
\* whose value is missing are dropped.
FilterUnsetDropsMissing(h, ref, column, cfg) ==
    IF cfg.min_length = None
    THEN FilterNoThreshold(
             IF cfg.drop_na /\ HasColumn(h[ref], column)
             THEN Alloc(h, BoolIndex(h[ref], [i \in 1..len(h[ref]) |->
                                        ~isna(h[ref].rows[i].cells[column])]))
             ELSE DataFrame_copy(h, ref))
    ELSE IF ~HasColumn(h[ref], column)
    THEN Raises(h, "KeyError")
    ELSE FilterReturn(len(h[ref]),
                      CopyOf(Alloc(h, FilterRows(h[ref], column, cfg))), cfg)

filter_by_length(h, ref, column, cfg) ==
    IF cfg.min_length = None
    THEN FilterNoThreshold(DataFrame_copy(h, ref))
    ELSE IF ~HasColumn(h[ref], column)
    THEN Raises(h, "KeyError")
    ELSE \* df_filtrado = df[mask].copy()
         FilterReturn(len(h[ref]),
                      CopyOf(Alloc(h, FilterRows(h[ref], column, cfg))), cfg)

\* Variant: only the float NaN is taken as missing, None and pd.NA are kept.
DropNaOnlyNaN(d, column) ==
    BoolIndex(d, [i \in 1..len(d) |-> d.rows[i].cells[column].kind # "nan"])

\* df.dropna(subset=[column])
DropNa(d, column) ==
    BoolIndex(d, [i \in 1..len(d) |-> ~isna(d.rows[i].cells[column])])

DropNaReturn(tamanho_anterior, c, column) ==
    Returns(c.heap, c.ref,
            [removed_rows |-> tamanho_anterior - len(c.heap[c.ref]),
             remaining_rows |-> len(c.heap[c.ref]),
             drop_na_column |-> column])

drop_na_rows(h, ref, column) ==
    IF ~HasColumn(h[ref], column)
    THEN Raises(h, "KeyError")
    ELSE \* df_filtrado = df.dropna(subset=[column]).copy()
         DropNaReturn(len(h[ref]), CopyOf(Alloc(h, DropNa(h[ref], column))), column)

-----------------------------------------------------------------------------
(* core/deduplication.py                                                   *)

\* Python's False as the value of DedupConfig.keep
PyFalse == "False"

DedupConfig(keep, case_sensitive, normalize_unicode) ==
    [keep |-> keep, case_sensitive |-> case_sensitive,
     normalize_unicode |-> normalize_unicode]

\* Variant: the key is always lower-cased.
DedupKeyAlwaysLower(v, cfg) ==
    LET s1 == str_lower(astype_str(v))
    IN IF cfg.normalize_unicode THEN NFKC(s1) ELSE s1

\* the comparison key of one cell: the value as text, lower-cased unless
\* case_sensitive, then NFKC-normalised if normalize_unicode
DedupKey(v, cfg) ==
    LET s0 == astype_str(v)
        s1 == IF ~cfg.case_sensitive THEN str_lower(s0) ELSE s0
    IN IF cfg.normalize_unicode THEN NFKC(s1) ELSE s1

\* Variant: "first" and "last" are exchanged.
DuplicatedSwapped(keys, keep) ==
    [i \in 1..Len(keys) |->
        CASE keep = "last" -> \E j \in 1..(i - 1) : keys[j] = keys[i]
          [] keep = "first" -> \E j \in (i + 1)..Len(keys) : keys[j] = keys[i]
          [] OTHER -> \E j \in 1..Len(keys) : j # i /\ keys[j] = keys[i]]

\* DataFrame.duplicated(subset=[key], keep=keep) for the keep values pandas
\* accepts: the rows to drop
Duplicated(keys, keep) ==
    [i \in 1..Len(keys) |->
        CASE keep = "first" -> \E j \in 1..(i - 1) : keys[j] = keys[i]
          [] keep = "last" -> \E j \in (i + 1)..Len(keys) : keys[j] = keys[i]
          [] OTHER -> \E j \in 1..Len(keys) : j # i /\ keys[j] = keys[i]]

KeepValues == {"first", "last", PyFalse}

\* series: the key of every row, as a column of Python strings
KeySeries(d, column, cfg) ==
    [i \in 1..len(d) |-> Str(DedupKey(d.rows[i].cells[column], cfg))]

\* df_aux["__dedup_key__"] = series, in place on the object c.ref
WithKeyColumn(c, series) ==
    [heap |-> [c.heap EXCEPT ![c.ref] = SetColumn(@, "__dedup_key__", series, "object")],
     ref |-> c.ref]

\* df_aux.drop_duplicates(subset=["__dedup_key__"], keep=keep), keep valid
DropDuplicates(d, keep) ==
    BoolIndex(d, [i \in 1..len(d) |->
                    ~Duplicated(Column(d, "__dedup_key__"), keep)[i]])

\* .drop(columns=["__dedup_key__"]) on the object just allocated
DropKey(k) == Alloc(k.heap, DropColumn(k.heap[k.ref], "__dedup_key__"))

DedupReturn(tamanho_anterior, res, cfg) ==
    Returns(res.heap, res.ref,
            [removed_duplicates |-> tamanho_anterior - len(res.heap[res.ref]),
             remaining_rows |-> len(res.heap[res.ref]),
             keep_strategy |-> cfg.keep,
             case_sensitive |-> cfg.case_sensitive,
             normalize_unicode |-> cfg.normalize_unicode])

\* drop_duplicates returns a copy of an empty frame before it looks at
\* keep; otherwise a keep that is none of "first", "last", False raises
\* ValueError
DedupOnAux(tamanho_anterior, aux, cfg) ==
    IF len(aux.heap[aux.ref]) > 0 /\ cfg.keep \notin KeepValues
    THEN Raises(aux.heap, "ValueError")
    ELSE DedupReturn(tamanho_anterior,
                     DropKey(Alloc(aux.heap,
                                   DropDuplicates(aux.heap[aux.ref], cfg.keep))),
                     cfg)

remove_duplicates(h, ref, column, cfg) ==
    IF ~HasColumn(h[ref], column)
    THEN Raises(h, "KeyError")
    ELSE \* df_aux = df.copy(); df_aux["__dedup_key__"] = series
         DedupOnAux(len(h[ref]),
                    WithKeyColumn(DataFrame_copy(h, ref),
                                  KeySeries(h[ref], column, cfg)),
                    cfg)

-----------------------------------------------------------------------------
(* core/cleaning.py                                                        *)

CleanConfig(strip, collapse, form, case, translit, coerce, empty_to_na) ==
    [strip |-> strip, collapse_whitespace |-> collapse,
     unicode_normalization |-> form, case |-> case,
     transliterate_ascii |-> translit,
     coerce_non_strings |-> coerce, empty_to_na |-> empty_to_na]

_is_textual_dtype(dtype) == dtype \in {"object", "string"}

\* Series.str.count(r"\s") on one text
CountWs(s) == Cardinality({i \in 1..Len(s) : s[i] \in Whitespace})

\* re.sub(r"\s+", " ", s): every maximal run of whitespace becomes one space
RECURSIVE CollapseWs(_)
CollapseWs(s) ==
    IF s = <<>> THEN <<>>
    ELSE IF Head(s) \in Whitespace
         THEN IF Len(s) > 1 /\ s[2] \in Whitespace
              THEN CollapseWs(Tail(s))
              ELSE <<" ">> \o CollapseWs(Tail(s))
         ELSE <<Head(s)>> \o CollapseWs(Tail(s))

\* re.sub(r"^\s+|\s+$", "", s): the leading and the trailing run are removed
RECURSIVE TrimLeft(_)
TrimLeft(s) ==
    IF s # <<>> /\ Head(s) \in Whitespace THEN TrimLeft(Tail(s)) ELSE s

RECURSIVE TrimRight(_)
TrimRight(s) ==
    IF s # <<>> /\ s[Len(s)] \in Whitespace
    THEN TrimRight(SubSeq(s, 1, Len(s) - 1)) ELSE s

TrimWs(s) == TrimRight(TrimLeft(s))

\* a str method of a Series applied to one cell: missing stays missing
StrOp(Op(_), v) == IF isna(v) THEN v ELSE Str(Op(v.s))

\* Variant: the conversion is astype(str), which renders a missing value
\* as its literal.
EnsureStringByStr(v) == Str(astype_str(v))

\* _ensure_string_dtype on one cell: series.astype("string") renders a
\* value as str(value) and every missing value as pd.NA
_ensure_string_dtype(v) == IF isna(v) THEN NA ELSE Str(astype_str(v))

\* _normalize_unicode on one cell; a form unicodedata does not know raises
\* inside _norm, which then returns str(x)
_normalize_unicode(v, form) ==
    IF form = None THEN v
    ELSE CASE Get(form) = "NFC" -> StrOp(NFC, v)
           [] Get(form) = "NFD" -> StrOp(NFD, v)
           [] Get(form) = "NFKC" -> StrOp(NFKC, v)
           [] Get(form) = "NFKD" -> StrOp(NFKD, v)
           [] OTHER -> v

\* _transliterate_ascii on one text: NFKD, drop the combining marks, then
\* encode("ascii", "ignore")
Translit(s) ==
    SelectSeq(NFKD(s), LAMBDA c : ~combining(c) /\ c \notin NonAscii)

\* the steps of clean_columns on one cell
\* s1: collapse, then strip
CollapseStep(s0, cfg) ==
    IF cfg.collapse_whitespace THEN StrOp(CollapseWs, s0) ELSE s0

StripStep(a, cfg) == IF cfg.strip THEN StrOp(TrimWs, a) ELSE a

CleanS1(s0, cfg) == StripStep(CollapseStep(s0, cfg), cfg)

\* s2: Unicode normalisation, transliteration, case
TranslitStep(a, cfg) ==
    IF cfg.transliterate_ascii THEN StrOp(Translit, a) ELSE a

CaseStep(b, cfg) ==
    CASE cfg.case = Some("lower") -> StrOp(str_lower, b)
      [] cfg.case = Some("upper") -> StrOp(str_upper, b)
      [] OTHER -> b

CleanS2(s1, cfg) ==
    CaseStep(TranslitStep(_normalize_unicode(s1, cfg.unicode_normalization), cfg), cfg)

\* empties = s2.fillna("").str.len() == 0
IsEmpty(s2) == isna(s2) \/ s2.s = <<>>

\* s2 = s2.mask(empties, other=pd.NA), if config.empty_to_na
EmptyToNa(s2, cfg) == IF cfg.empty_to_na /\ IsEmpty(s2) THEN NA ELSE s2

\* Variant: only the ASCII space is counted.
WsCountSpaces(v) ==
    IF isna(v) THEN 0 ELSE Cardinality({i \in 1..Len(v.s) : v.s[i] = " "})

\* _count_whitespace_chars on one cell: missing counts 0
WsCount(v) == IF isna(v) THEN 0 ELSE CountWs(v.s)

\* changed_mask = s2.ne(s0) & ~(s2.isna() & s0.isna()), as the sum counts
\* it: a comparison with pd.NA is pd.NA, which the sum skips
CellChanged(s0, final) == ~isna(s0) /\ ~isna(final) /\ final.s # s0.s

\* what one cell contributes: its final value and its share of the metrics
CellStats(s0, s1, s2, cfg) ==
    [final |-> EmptyToNa(s2, cfg),
     ws_removed |-> WsCount(s0) - WsCount(s1),
     changed |-> CellChanged(s0, EmptyToNa(s2, cfg)),
     empty |-> cfg.empty_to_na /\ IsEmpty(s2)]

CellFromS1(s0, s1, cfg) == CellStats(s0, s1, CleanS2(s1, cfg), cfg)

CellFromS0(s0, cfg) == CellFromS1(s0, CleanS1(s0, cfg), cfg)

CleanCell(v, cfg) == CellFromS0(_ensure_string_dtype(v), cfg)

RECURSIVE SumSeq(_)
SumSeq(s) == IF s = <<>> THEN 0 ELSE Head(s) + SumSeq(Tail(s))

CountTrue(s) == Cardinality({i \in 1..Len(s) : s[i]})

\* the dtype of the cleaned series: the "string" dtype, or object once
\* Series.map has been applied
CleanedDtype(cfg) ==
    IF cfg.unicode_normalization # None \/ cfg.transliterate_ascii
    THEN "object" ELSE "string"

\* Variant: coerce_non_strings is not consulted, a non-textual column is
\* always skipped.
ColumnCleanedTextualOnly(d, col, cfg) ==
    /\ HasColumn(d, col)
    /\ _is_textual_dtype(d.dtypes[col])

\* whether the loop body processes col (it does not `continue`)
ColumnCleaned(d, col, cfg) ==
    /\ HasColumn(d, col)
    /\ (_is_textual_dtype(d.dtypes[col]) \/ cfg.coerce_non_strings)

\* the end of one iteration, cells holding CleanCell of every cell of col:
\* the totals are advanced and out[col] = s2
ColumnUpdate(st, col, cfg, cells) ==
    [out |-> SetColumn(st.out, col, [i \in 1..Len(cells) |-> cells[i].final],
                       CleanedDtype(cfg)),
     per_col_ws_removed |->
         [c \in DOMAIN st.per_col_ws_removed \cup {col} |->
            IF c = col
            THEN SumSeq([i \in 1..Len(cells) |-> cells[i].ws_removed])
            ELSE st.per_col_ws_removed[c]],
     cells_modified_total |-> st.cells_modified_total
         + CountTrue([i \in 1..Len(cells) |-> cells[i].changed]),
     empty_to_na_total |-> st.empty_to_na_total
         + CountTrue([i \in 1..Len(cells) |-> cells[i].empty])]

\* one iteration of the loop `for col in columns`, on the state
\* [out, per_col_ws_removed, cells_modified_total, empty_to_na_total]
CleanColumn(st, col, cfg) ==
    IF ~ColumnCleaned(st.out, col, cfg) THEN st
    ELSE ColumnUpdate(st, col, cfg,
                      [i \in 1..len(st.out) |->
                          CleanCell(st.out.rows[i].cells[col], cfg)])

RECURSIVE CleanLoop(_, _, _)
CleanLoop(st, columns, cfg) ==
    IF columns = <<>> THEN st
    ELSE CleanLoop(CleanColumn(st, Head(columns), cfg), Tail(columns), cfg)

RECURSIVE SumOver(_, _)
SumOver(f, S) ==
    IF S = {} THEN 0
    ELSE SumOver(f, S \ {CHOOSE k \in S : TRUE}) + f[CHOOSE k \in S : TRUE]

SumValues(f) == SumOver(f, DOMAIN f)

\* columns: the argument, or the textual columns when it is None
ResolveColumns(d, columns_arg) ==
    IF columns_arg = None
    THEN SelectSeq(d.columns, LAMBDA c : _is_textual_dtype(d.dtypes[c]))
    ELSE Get(columns_arg)

CleanReturn(c, columns, st) ==
    Returns([c.heap EXCEPT ![c.ref] = st.out], c.ref,
            [total_whitespace_removed |-> SumValues(st.per_col_ws_removed),
             per_column_whitespace_removed |-> st.per_col_ws_removed,
             cells_modified |-> st.cells_modified_total,
             empty_strings_to_na |-> st.empty_to_na_total,
             columns_processed |-> columns])

\* the loop on out = c, the deep copy of df
CleanOnCopy(c, columns, cfg) ==
    CleanReturn(c, columns,
                CleanLoop([out |-> c.heap[c.ref], per_col_ws_removed |-> <<>>,
                           cells_modified_total |-> 0, empty_to_na_total |-> 0],
                          columns, cfg))

clean_columns(h, ref, columns_arg, cfg) ==
    CleanOnCopy(DataFrame_copy(h, ref), ResolveColumns(h[ref], columns_arg), cfg)

-----------------------------------------------------------------------------
(* core/pipeline.py                                                        *)

PipelineConfig(cleaning, filtering, deduplication) ==
    [cleaning |-> cleaning, filtering |-> filtering, deduplication |-> deduplication]

PipelineResult(dataframe, m) == [status |-> "ok", dataframe |-> dataframe, metrics |-> m]

\* the call ended by an exception that reached the caller
Raised(exc) == [status |-> exc, dataframe |-> None, metrics |-> <<>>]

\* a stage call as the log keeps it: `before` is the content of the input
\* object when the call was made
LogEntry(stage, input, r) ==
    [stage |-> stage, input |-> input, before |-> heap[input],
     status |-> r.status, output |-> r.df]

\* metrics = {}; current_df = df.copy()
RunBegin ==
    /\ pc = "start"
    /\ LET c == DataFrame_copy(heap, df)
       IN /\ heap' = c.heap
          /\ current_df' = c.ref
          /\ stage_log' = Append(stage_log,
                                 LogEntry("copy", df, Returns(c.heap, c.ref, <<>>)))
    /\ metrics' = <<>>
    /\ pc' = "cleaning"
    /\ UNCHANGED <<df, df0, target_column, columns_to_clean, config, result>>
    /\ UNCHANGED appvars

\* a stage call made by run: the stage's result replaces current_df and its
\* metrics are stored under the stage's key; an exception leaves run
StageCall(stage, input, r, next_pc) ==
    /\ heap' = r.heap
    /\ stage_log' = Append(stage_log, LogEntry(stage, input, r))
    /\ IF r.status = "ok"
       THEN /\ current_df' = r.df
            /\ metrics' = (stage :> r.metrics) @@ metrics
            /\ pc' = next_pc
            /\ UNCHANGED result
       ELSE /\ pc' = "raised"
            /\ result' = Some(Raised(r.status))
            /\ UNCHANGED <<current_df, metrics>>
    /\ UNCHANGED <<df, df0, target_column, columns_to_clean, config>>
    /\ UNCHANGED appvars

StageSkip(next_pc) ==
    /\ pc' = next_pc
    /\ UNCHANGED <<heap, df, df0, target_column, columns_to_clean, config,
                   current_df, metrics, result, stage_log>>
    /\ UNCHANGED appvars

\* 1. Cleaning
RunCleaning ==
    /\ pc = "cleaning"
    /\ IF Truthy(config.cleaning)
       THEN StageCall("cleaning", current_df,
                      clean_columns(heap, current_df, columns_to_clean,
                                    Get(config.cleaning)),
                      "filtering")
       ELSE StageSkip("filtering")

\* Variant: the filter is given the caller's frame, not current_df.
RunFilteringOnOriginal ==
    /\ pc = "filtering"
    /\ IF Truthy(config.filtering)
       THEN StageCall("filtering", df,
                      filter_by_length(heap, df, target_column,
                                       Get(config.filtering)),
                      "deduplication")
       ELSE StageSkip("deduplication")

\* 2. Filtering
RunFiltering ==
    /\ pc = "filtering"
    /\ IF Truthy(config.filtering)
       THEN StageCall("filtering", current_df,
                      filter_by_length(heap, current_df, target_column,
                                       Get(config.filtering)),
                      "deduplication")
       ELSE StageSkip("deduplication")

\* 3. Deduplication
RunDeduplication ==
    /\ pc = "deduplication"
    /\ IF Truthy(config.deduplication)
       THEN StageCall("deduplication", current_df,
                      remove_duplicates(heap, current_df, target_column,
                                        Get(config.deduplication)),
                      "return")
       ELSE StageSkip("return")

\* return PipelineResult(dataframe=current_df, metrics=metrics)
RunReturn ==
    /\ pc = "return"
    /\ result' = Some(PipelineResult(current_df, metrics))
    /\ pc' = "done"
    /\ UNCHANGED <<heap, df, df0, target_column, columns_to_clean, config,
                   current_df, metrics, stage_log>>
    /\ UNCHANGED appvars

-----------------------------------------------------------------------------
(* Direct calls of the stage functions by a caller                         *)

DirectCall(stage, r) ==
    /\ pc = "start"
    /\ heap' = r.heap
    /\ stage_log' = Append(stage_log, LogEntry(stage, df, r))
    /\ result' = Some(IF r.status = "ok" THEN PipelineResult(r.df, r.metrics)
                      ELSE Raised(r.status))
    /\ pc' = IF r.status = "ok" THEN "returned" ELSE "raised"
    /\ UNCHANGED <<df, df0, target_column, columns_to_clean, config,
                   current_df, metrics>>
    /\ UNCHANGED appvars

CallCleanColumns ==
    /\ config.cleaning # None
    /\ DirectCall("clean_columns",
                  clean_columns(heap, df, columns_to_clean, Get(config.cleaning)))

CallFilterByLength ==
    /\ config.filtering # None
    /\ DirectCall("filter_by_length",
                  filter_by_length(heap, df, target_column, Get(config.filtering)))

CallDropNaRows ==
    DirectCall("drop_na_rows", drop_na_rows(heap, df, target_column))

CallRemoveDuplicates ==
    /\ config.deduplication # None
    /\ DirectCall("remove_duplicates",
                  remove_duplicates(heap, df, target_column,
                                    Get(config.deduplication)))

\* a caller cleaning twice: clean_columns applied to the frame the first
\* call returned, with the same columns and the same config
SecondCall(stage, input, r) ==
    /\ heap' = r.heap
    /\ stage_log' = Append(stage_log, LogEntry(stage, input, r))
    /\ result' = Some(IF r.status = "ok" THEN PipelineResult(r.df, r.metrics)
                      ELSE Raised(r.status))
    /\ pc' = IF r.status = "ok" THEN "returned_again" ELSE "raised"
    /\ UNCHANGED <<df, df0, target_column, columns_to_clean, config,
                   current_df, metrics>>
    /\ UNCHANGED appvars

CallCleanColumnsAgain ==
    /\ pc = "returned"
    /\ stage_log[1].stage = "clean_columns"
    /\ SecondCall("clean_columns", Get(result).dataframe,
                  clean_columns(heap, Get(result).dataframe, columns_to_clean,
                                Get(config.cleaning)))

-----------------------------------------------------------------------------
(* Input datasets and configurations                                       *)

Digits == <<"0", "1", "2", "3", "4", "5", "6", "7", "8", "9">>

\* a frame with the text column "name" holding the given values and the
\* numeric column "age" holding the row number
Frame(names) ==
    [columns |-> <<"name", "age">>,
     dtypes |-> [name |-> "object", age |-> "int64"],
     rows |-> [i \in 1..Len(names) |->
                 MkRow(i - 1, [name |-> names[i], age |-> IntVal(<<Digits[i + 1]>>)])]]

Frames(values) == {Frame(names) : names \in SeqsUpTo(values, MaxRows)}

\* the state before the call, given the caller's frame d and the column
StartOn(d, column) ==
    /\ heap = <<d>>
    /\ df0 = d
    /\ df = 1
    /\ target_column = column
    /\ pc = "start"
    /\ current_df = None
    /\ metrics = <<>>
    /\ result = None
    /\ stage_log = <<>>
    /\ NoApplication

Start(d) == StartOn(d, "name")

\* -- the pipeline -----------------------------------------------------------

PipelineValues == {Str(<<" ", "a">>), Str(<<"A">>), PyNone}

PipelineFrames == Frames(PipelineValues)

DefaultCleanConfig ==
    CleanConfig(TRUE, TRUE, Some("NFKC"), None, FALSE, FALSE, TRUE)

PipelineCleanConfigs ==
    {None, Some(DefaultCleanConfig),
     Some(CleanConfig(TRUE, TRUE, None, Some("lower"), FALSE, FALSE, FALSE))}

PipelineFilterConfigs ==
    {None, Some(FilterConfig(None, FALSE))}
    \cup {Some(FilterConfig(Some(m), na)) : m \in {2, 4}, na \in BOOLEAN}

PipelineDedupConfigs ==
    {None} \cup {Some(DedupConfig(k, cs, FALSE)) :
                    k \in KeepValues \cup {"none"}, cs \in BOOLEAN}

PipelineConfigs ==
    {PipelineConfig(c, f, d) : c \in PipelineCleanConfigs,
                               f \in PipelineFilterConfigs,
                               d \in PipelineDedupConfigs}

CleanScopes == {None, Some(<<"name", "age">>)}

Init ==
    /\ \E d \in PipelineFrames : Start(d)
    /\ columns_to_clean \in CleanScopes
    /\ config \in PipelineConfigs

Next ==
    \/ RunBegin
    \/ RunCleaning
    \/ RunFiltering
    \/ RunDeduplication
    \/ RunReturn
    \/ CallCleanColumns
    \/ CallFilterByLength
    \/ CallDropNaRows
    \/ CallRemoveDuplicates

Spec == Init /\ [][Next]_vars

\* -- filter_by_length and drop_na_rows called on their own -----------------

\* the column of tests/test_filtering.py: João, Maria, Ana, Pedro, None, Lu
FilterExample ==
    Frame(<<Str(<<"J", "o", "a_tilde", "o">>), Str(<<"M", "a", "r", "i", "a">>),
            Str(<<"A", "n", "a">>), Str(<<"P", "e", "d", "r", "o">>),
            PyNone, Str(<<"L", "u">>)>>)

FilterValues ==
    {Str(<<>>), Str(<<"a", "b">>), Str(<<"n", "a", "n">>),
     Str(<<"J", "o", "a_tilde", "o">>), NaN, PyNone, NA}

FilterFrames == Frames(FilterValues) \cup {FilterExample}

MinLengths == {None} \cup {Some(m) : m \in (0 - 1)..MaxMinLength}

FilterConfigs ==
    {PipelineConfig(None, Some(FilterConfig(m, na)), None) :
        m \in MinLengths, na \in BOOLEAN}

InitFilter ==
    /\ \E d \in FilterFrames : Start(d)
    /\ columns_to_clean = None
    /\ config \in FilterConfigs

NextFilter ==
    \/ CallFilterByLength
    \/ CallDropNaRows

SpecFilter == InitFilter /\ [][NextFilter]_vars

\* -- remove_duplicates called on its own ------------------------------------

\* the column of tests/test_deduplication.py, the addresses shortened:
\* joao@x, MARIA@X, joao@x, ana@x, maria@x
DedupExample ==
    Frame(<<Str(<<"j", "o", "a", "o", "@", "x">>),
            Str(<<"M", "A", "R", "I", "A", "@", "X">>),
            Str(<<"j", "o", "a", "o", "@", "x">>),
            Str(<<"a", "n", "a", "@", "x">>),
            Str(<<"m", "a", "r", "i", "a", "@", "x">>)>>)

DedupValues ==
    {Str(<<"a">>), Str(<<"A">>), Str(<<"fw_a">>), Str(<<"n", "a", "n">>),
     NaN, PyNone}

DedupFrames == Frames(DedupValues) \cup {DedupExample}

DedupConfigs ==
    {PipelineConfig(None, None, Some(DedupConfig(k, cs, nu))) :
        k \in KeepValues \cup {"none"}, cs \in BOOLEAN, nu \in BOOLEAN}

InitDedup ==
    /\ \E d \in DedupFrames : Start(d)
    /\ columns_to_clean = None
    /\ config \in DedupConfigs

NextDedup == CallRemoveDuplicates

SpecDedup == InitDedup /\ [][NextDedup]_vars

\* -- clean_columns called on its own, once and twice ------------------------

\* a frame with the text column "name" and the float column "age", which
\* holds a number in the odd rows and NaN in the even ones
CleanFrame(names) ==
    [columns |-> <<"name", "age">>,
     dtypes |-> [name |-> "object", age |-> "float64"],
     rows |-> [i \in 1..Len(names) |->
                 MkRow(i - 1, [name |-> names[i],
                               age |-> IF i % 2 = 1
                                       THEN FloatVal(<<Digits[i + 1], ".", "0">>)
                                       ELSE NaN])]]

\* the first cell of tests/test_cleaning.py: '  Joao  Silva  ' with a tilde
CleanExample ==
    CleanFrame(<<Str(<<" ", " ", "J", "o", "a_tilde", "o", " ", " ",
                       "S", "i", "l", "v", "a", " ", " ">>)>>)

CleanValues ==
    {Str(<<>>), Str(<<" ", "nbsp">>),
     Str(<<" ", "A", "tab", " ", "a_tilde", "nbsp">>),
     Str(<<"diaeresis">>), PyNone}

CleanFrames ==
    {CleanFrame(names) : names \in SeqsUpTo(CleanValues, MaxCleanRows)}
    \cup {CleanExample}

CleanForms == {None, Some("NFKC")}

CleanCases == {None, Some("lower"), Some("upper")}

CleanConfigs ==
    {PipelineConfig(Some(CleanConfig(st, co, f, ca, tr, cn, en)), None, None) :
        st \in BOOLEAN, co \in BOOLEAN, f \in CleanForms, ca \in CleanCases,
        tr \in BOOLEAN, cn \in BOOLEAN, en \in BOOLEAN}

\* the columns argument: omitted, or a list naming the text column, the
\* numeric column and a column the frame does not have
CleanColumnArgs == {None, Some(<<"name", "age", "email">>)}

InitClean ==
    /\ \E d \in CleanFrames : Start(d)
    /\ columns_to_clean \in CleanColumnArgs
    /\ config \in CleanConfigs

NextClean ==
    \/ CallCleanColumns
    \/ CallCleanColumnsAgain

SpecClean == InitClean /\ [][NextClean]_vars

\* -- the three stage functions on frames of various column names ----------

\* a frame whose second column bears the name remove_duplicates gives to
\* its auxiliary column
KeyClashFrame(names) ==
    [columns |-> <<"name", "__dedup_key__">>,
     dtypes |-> ("name" :> "object") @@ ("__dedup_key__" :> "object"),
     rows |-> [i \in 1..Len(names) |->
                 MkRow(i - 1, ("name" :> names[i])
                              @@ ("__dedup_key__" :> Str(<<Digits[i + 1]>>)))]]

ColumnValues == {Str(<<"a">>), Str(<<" ", "A">>), PyNone}

ColumnFrames ==
    Frames(ColumnValues)
    \cup {KeyClashFrame(names) : names \in SeqsUpTo(ColumnValues, MaxRows)}

ColumnConfigs ==
    {PipelineConfig(Some(DefaultCleanConfig), Some(FilterConfig(m, FALSE)),
                    Some(DedupConfig(k, cs, FALSE))) :
        m \in {None, Some(2)}, k \in KeepValues, cs \in BOOLEAN}

InitColumns ==
    /\ \E d \in ColumnFrames : Start(d)
    /\ columns_to_clean = None
    /\ config \in ColumnConfigs

NextColumns ==
    \/ CallCleanColumns
    \/ CallFilterByLength
    \/ CallRemoveDuplicates

SpecColumns == InitColumns /\ [][NextColumns]_vars

\* -- run with a target column the frame does not have ----------------------

InitAbsentColumn ==
    /\ \E d \in PipelineFrames : StartOn(d, "email")
    /\ columns_to_clean \in CleanScopes
    /\ config \in PipelineConfigs

NextAbsentColumn ==
    \/ RunBegin
    \/ RunCleaning
    \/ RunFiltering
    \/ RunDeduplication
    \/ RunReturn

SpecAbsentColumn == InitAbsentColumn /\ [][NextAbsentColumn]_vars

-----------------------------------------------------------------------------
(* core/config.py: the application configuration and its presets           *)

\* AppConfig: the field pipeline holds the PipelineConfig object; the UI and
\* export fields keep their defaults everywhere and are left out
AppConfig(pipeline) == [pipeline |-> pipeline]

\* AppConfig.get_default()
get_default ==
    AppConfig(PipelineConfig(
        Some(CleanConfig(TRUE, TRUE, Some("NFKC"), Some("lower"), FALSE, FALSE, TRUE)),
        Some(FilterConfig(Some(3), TRUE)),
        Some(DedupConfig("first", FALSE, TRUE))))

\* the presets dictionary built inside get_preset (the fields a preset does
\* not name take the defaults of the config classes)
presets ==
    [customer_data |->
        AppConfig(PipelineConfig(
            Some(CleanConfig(TRUE, TRUE, Some("NFKC"), Some("title"), FALSE, FALSE, TRUE)),
            Some(FilterConfig(Some(5), TRUE)),
            Some(DedupConfig("first", FALSE, FALSE)))),
     product_catalog |->
        AppConfig(PipelineConfig(
            Some(CleanConfig(TRUE, TRUE, Some("NFKC"), Some("lower"), FALSE, FALSE, TRUE)),
            Some(FilterConfig(Some(2), FALSE)),
            Some(DedupConfig("first", TRUE, FALSE)))),
     minimal |->
        AppConfig(PipelineConfig(
            Some(CleanConfig(TRUE, TRUE, Some("NFKC"), None, FALSE, FALSE, TRUE)),
            None,
            None))]

\* AppConfig.get_preset(preset_name): presets.get(preset_name, get_default())
get_preset(preset_name) ==
    IF preset_name \in DOMAIN presets THEN presets[preset_name] ELSE get_default

-----------------------------------------------------------------------------
(* app/services/state_service.py: AppState and its observers               *)

\* AppState(): the dataclass defaults; current_config is the reference of
\* a new get_default() object, _observers an empty dict
AppState(config_ref) ==
    [current_data |-> None, current_columns |-> <<>>,
     current_config |-> config_ref, pipeline_result |-> None,
     current_filepath |-> None, observers |-> <<>>]

\* DataFrame.empty
empty(d) == len(d) = 0 \/ Len(d.columns) = 0

has_data(st, h) == st.current_data # None /\ ~empty(h[Get(st.current_data)])

has_processed_data(st) ==
    st.pipeline_result # None /\ Get(st.pipeline_result).dataframe # None

has_selected_columns(st) == Len(st.current_columns) > 0

\* list.remove(x): the first occurrence goes
ListRemove(s, x) ==
    LET i == CHOOSE k \in 1..Len(s) : s[k] = x /\ \A j \in 1..(k - 1) : s[j] # x
    IN SubSeq(s, 1, i - 1) \o SubSeq(s, i + 1, Len(s))

subscribe(obs, event, callback) ==
    IF event \in DOMAIN obs
    THEN [obs EXCEPT ![event] = Append(@, callback)]
    ELSE (event :> <<callback>>) @@ obs

unsubscribe(obs, event, callback) ==
    IF event \in DOMAIN obs /\ Contains(obs[event], callback)
    THEN [obs EXCEPT ![event] = ListRemove(@, callback)]
    ELSE obs

\* the callbacks a client subscribes: test_callback of tests/test_state_service.py
\* appends what it receives; failing_callback raises ValueError;
\* one_shot_callback appends and then unsubscribes itself from the event
Callbacks == {"test_callback", "failing_callback", "one_shot_callback"}

\* callback(data): the observers after the call and how the call ended
Invoke(callback, obs, event) ==
    CASE callback = "failing_callback" ->
            [observers |-> obs, outcome |-> "ValueError"]
      [] callback = "one_shot_callback" ->
            [observers |-> unsubscribe(obs, event, callback), outcome |-> "returned"]
      [] OTHER -> [observers |-> obs, outcome |-> "returned"]

\* the exceptions `except Exception` catches; SystemExit and
\* KeyboardInterrupt derive from BaseException only and pass through
ExceptionSubclasses == {"ValueError", "RecursionError"}

Delivery(callback, event, data, outcome) ==
    [callback |-> callback, event |-> event, data |-> data, outcome |-> outcome]

RECURSIVE NotifyFrom(_, _, _, _, _)

\* try: callback(data) / except Exception: print(...); r is what the call
\* did.  A caught exception lets the loop go on; any other leaves _notify
NotifyStep(obs, event, data, i, received, r) ==
    IF r.outcome = "returned" \/ r.outcome \in ExceptionSubclasses
    THEN NotifyFrom(r.observers, event, data, i + 1,
                    Append(received, Delivery(obs[event][i], event, data, r.outcome)))
    ELSE [observers |-> r.observers,
          received |-> Append(received, Delivery(obs[event][i], event, data, r.outcome)),
          raised |-> Some(r.outcome)]

\* _notify, from position i on: the for loop walks the list object itself
\* (self._observers.get(event, [])), so it sees the entries by their
\* position at the moment of each step
NotifyFrom(obs, event, data, i, received) ==
    IF event \notin DOMAIN obs \/ i > Len(obs[event])
    THEN [observers |-> obs, received |-> received, raised |-> None]
    ELSE NotifyStep(obs, event, data, i, received, Invoke(obs[event][i], obs, event))

_notify(obs, event, data) == NotifyFrom(obs, event, data, 1, <<>>)

\* what `call` keeps of an operation: its name, the event and payload it
\* emitted, the observers and the stored result when it was called, the
\* deliveries it made in order, and the exception that reached its caller
CallRecord(op, event, data, before, n) ==
    [op |-> op, event |-> event, data |-> data, observers |-> before.observers,
     previous_result |-> before.pipeline_result,
     received |-> n.received, raised |-> n.raised]

\* an operation of the AppState `before`: it assigned the fields (st is the
\* state after the assignments) and then calls self._notify(event, data)
Emit(before, st, op, event, data, n) ==
    /\ state' = Some([st EXCEPT !.observers = n.observers])
    /\ call' = Some(CallRecord(op, event, data, before, n))

\* Variant: the stored pipeline result is kept when new data is set.
set_data_keeping_result(st, data, filepath) ==
    [st EXCEPT !.current_data = Some(data), !.current_filepath = filepath]

set_data(st, data, filepath) ==
    [st EXCEPT !.current_data = Some(data), !.current_filepath = filepath,
               !.pipeline_result = None]

set_config(st, c) == [st EXCEPT !.current_config = c]

set_columns(st, columns) == [st EXCEPT !.current_columns = columns]

set_pipeline_result(st, r) == [st EXCEPT !.pipeline_result = Some(r)]

\* reset: config_ref is the reference of the new AppConfig.get_default()
reset(st, config_ref) ==
    [st EXCEPT !.current_data = None, !.current_columns = <<>>,
               !.current_config = config_ref, !.pipeline_result = None,
               !.current_filepath = None]

\* the payload of the 'reset' event
ResetPayload(st) ==
    [previous_data |-> st.current_data, previous_config |-> st.current_config]

-----------------------------------------------------------------------------
(* AppState used by a client: subscriptions and the five operations        *)

MaxSubscriptions == 2

MaxConfigs == 3

Subscriptions(obs) == SumValues([e \in DOMAIN obs |-> Len(obs[e])])

St == Get(state)

Quiet(op, event, data) ==
    Some(CallRecord(op, event, data, St, [received |-> <<>>, raised |-> None]))

\* the events a client of this model subscribes to
SubscribedEvents == {"data_loaded", "reset"}

Subscribe ==
    /\ Subscriptions(St.observers) < MaxSubscriptions
    /\ \E event \in SubscribedEvents, callback \in Callbacks :
          /\ state' = Some([St EXCEPT !.observers = subscribe(@, event, callback)])
          /\ call' = Quiet("subscribe", event, callback)
    /\ UNCHANGED <<configs, PRESET_CONFIGS, panel, stack>>
    /\ UNCHANGED corevars

Unsubscribe ==
    /\ \E event \in SubscribedEvents, callback \in Callbacks :
          /\ state' = Some([St EXCEPT !.observers = unsubscribe(@, event, callback)])
          /\ call' = Quiet("unsubscribe", event, callback)
    /\ UNCHANGED <<configs, PRESET_CONFIGS, panel, stack>>
    /\ UNCHANGED corevars

Operation(st, op, event, data) ==
    /\ Emit(St, st, op, event, data, _notify(st.observers, event, data))
    /\ UNCHANGED <<PRESET_CONFIGS, panel, stack>>
    /\ UNCHANGED corevars

SetData ==
    /\ \E data \in 1..Len(heap), filepath \in {None, Some("test.csv")} :
          Operation(set_data(St, data, filepath), "set_data", "data_loaded", data)
    /\ UNCHANGED configs

SetConfig ==
    /\ \E c \in 1..Len(configs) :
          Operation(set_config(St, c), "set_config", "config_changed", c)
    /\ UNCHANGED configs

SetColumns ==
    /\ \E columns \in {<<>>, <<"name">>} :
          Operation(set_columns(St, columns), "set_columns", "columns_changed", columns)
    /\ UNCHANGED configs

SetPipelineResult ==
    /\ \E data \in 1..Len(heap) :
          Operation(set_pipeline_result(St, PipelineResult(data, <<>>)),
                    "set_pipeline_result", "pipeline_executed",
                    PipelineResult(data, <<>>))
    /\ UNCHANGED configs

Reset ==
    /\ Len(configs) < MaxConfigs
    /\ configs' = Append(configs, get_default)
    /\ Operation(reset(St, Len(configs) + 1), "reset", "reset", ResetPayload(St))

\* state = AppState() in a process that holds one loaded frame and a second
\* configuration object (the 'minimal' preset)
InitAppState ==
    /\ heap = <<Frame(<<Str(<<"A">>), Str(<<"a">>)>>)>>
    /\ df = None
    /\ df0 = None
    /\ target_column = None
    /\ columns_to_clean = None
    /\ config = None
    /\ pc = "idle"
    /\ current_df = None
    /\ metrics = <<>>
    /\ result = None
    /\ stage_log = <<>>
    /\ configs = <<get_default, get_preset("minimal")>>
    /\ state = Some(AppState(1))
    /\ PRESET_CONFIGS = <<>>
    /\ panel = None
    /\ call = None
    /\ stack = <<>>

NextAppState ==
    \/ Subscribe
    \/ Unsubscribe
    \/ SetData
    \/ SetConfig
    \/ SetColumns
    \/ SetPipelineResult
    \/ Reset

SpecAppState == InitAppState /\ [][NextAppState]_vars

-----------------------------------------------------------------------------
(* app/main.py: the wiring of the panels, the handlers and the AppState    *)

\* the depth at which the interpreter raises RecursionError
RecursionLimit == 6

\* _setup_bindings: the four subscriptions of the application
WiredObservers ==
    [data_loaded |-> <<"_on_data_loaded">>,
     config_changed |-> <<"_on_config_changed">>,
     columns_changed |-> <<"_on_columns_changed">>,
     pipeline_executed |-> <<"_on_pipeline_executed">>]

\* a frame of the call stack: the function, its argument, and where it is
\* ("call" before its call, "return" after it; a loop position in _notify)
StackFrame(fn, arg, at) == [fn |-> fn, arg |-> arg, at |-> at]

Top == stack[Len(stack)]

At(s, at) == [s EXCEPT ![Len(s)].at = at]

\* an exception leaves the frames above the nearest _notify, whose
\* try/except catches it, or all of them
RECURSIVE Unwind(_)
Unwind(s) ==
    IF s = <<>> \/ s[Len(s)].fn = "_notify" THEN s
    ELSE Unwind(SubSeq(s, 1, Len(s) - 1))

\* the caller (the top frame, already moved to its next position) calls f:
\* a new frame, or RecursionError in the caller when the stack is full
Enter(s, f) ==
    IF Len(s) < RecursionLimit THEN Append(s, f) ELSE Unwind(s)

\* the AppState setter each handler calls, and the event the setter emits
SetterOf ==
    [_on_config_changed |-> "set_config", _on_columns_changed |-> "set_columns",
     _on_file_loaded |-> "set_data"]

EventOf ==
    [set_config |-> "config_changed", set_columns |-> "columns_changed",
     set_data |-> "data_loaded"]

\* the assignments of a setter
Assigned(st, setter, arg) ==
    CASE setter = "set_config" -> set_config(st, arg)
      [] setter = "set_columns" -> set_columns(st, arg)
      [] setter = "set_data" -> set_data(st, arg, None)

\* what `call` keeps of a change reported by a panel: the handler called,
\* the value reported and the number of AppState setter calls made for it
Change(handler, arg, calls) == [op |-> handler, data |-> arg, calls |-> calls]

\* a panel reports a change: ConfigPanel._on_config_change calls
\* on_config_change(self.config), ColumnEditorPanel._notify_columns_change
\* calls on_columns_change(self.selected_columns), the file loader calls
\* on_file_loaded(data, filepath)
Report(handler, arg) ==
    /\ stack = <<>>
    /\ stack' = <<StackFrame(handler, arg, "call")>>
    /\ call' = Some(Change(handler, arg, 0))
    /\ UNCHANGED <<state, configs, PRESET_CONFIGS, panel>>
    /\ UNCHANGED corevars

ConfigPanelReports == \E c \in 2..Len(configs) : Report("_on_config_changed", c)

ColumnEditorReports ==
    \E columns \in {<<"name">>, <<"name", "age">>, <<"age", "name">>} :
        Report("_on_columns_changed", columns)

FileLoaderReports == \E data \in 1..Len(heap) : Report("_on_file_loaded", data)

\* _on_config_changed, _on_columns_changed, _on_file_loaded: the handler
\* calls self.state.set_config(config), set_columns(columns), set_data(data)
HandlerCallsSetter ==
    /\ stack # <<>>
    /\ Top.fn \in DOMAIN SetterOf
    /\ Top.at = "call"
    /\ stack' = Enter(At(stack, IF Top.fn = "_on_file_loaded" THEN "set_columns" ELSE "return"),
                      StackFrame(SetterOf[Top.fn], Top.arg, "call"))
    /\ call' = Some([Get(call) EXCEPT !.calls = @ + 1])
    /\ UNCHANGED <<state, configs, PRESET_CONFIGS, panel>>
    /\ UNCHANGED corevars

\* _on_file_loaded goes on: self.column_editor.set_columns(data.columns.tolist())
\* selects every column and reports the selection
FileLoadedSetsColumns ==
    /\ stack # <<>>
    /\ Top.fn = "_on_file_loaded"
    /\ Top.at = "set_columns"
    /\ stack' = Enter(At(stack, "return"),
                      StackFrame("_on_columns_changed", heap[Top.arg].columns, "call"))
    /\ UNCHANGED <<state, configs, PRESET_CONFIGS, panel, call>>
    /\ UNCHANGED corevars

\* set_data, set_config, set_columns: the assignments, then self._notify
SetterNotifies ==
    /\ stack # <<>>
    /\ Top.fn \in DOMAIN EventOf
    /\ Top.at = "call"
    /\ state' = Some(Assigned(St, Top.fn, Top.arg))
    /\ stack' = Enter(At(stack, "return"), StackFrame("_notify", EventOf[Top.fn], 1))
    /\ UNCHANGED <<configs, PRESET_CONFIGS, panel, call>>
    /\ UNCHANGED corevars

\* _notify: the next callback of the list is called with the data of the
\* setter below; after the last one _notify returns
NotifyCallsNext ==
    /\ stack # <<>>
    /\ Top.fn = "_notify"
    /\ stack' = IF Top.at <= Len(St.observers[Top.arg])
                THEN Enter(At(stack, Top.at + 1),
                           StackFrame(St.observers[Top.arg][Top.at],
                                      stack[Len(stack) - 1].arg, "call"))
                ELSE SubSeq(stack, 1, Len(stack) - 1)
    /\ UNCHANGED <<state, configs, PRESET_CONFIGS, panel, call>>
    /\ UNCHANGED corevars

\* _on_data_loaded and _on_pipeline_executed update the preview and the
\* metrics display: no state of this model changes
HandlerUpdatesView ==
    /\ stack # <<>>
    /\ Top.fn \in {"_on_data_loaded", "_on_pipeline_executed"}
    /\ Top.at = "call"
    /\ stack' = At(stack, "return")
    /\ UNCHANGED <<state, configs, PRESET_CONFIGS, panel, call>>
    /\ UNCHANGED corevars

Return ==
    /\ stack # <<>>
    /\ Top.fn # "_notify"
    /\ Top.at = "return"
    /\ stack' = SubSeq(stack, 1, Len(stack) - 1)
    /\ UNCHANGED <<state, configs, PRESET_CONFIGS, panel, call>>
    /\ UNCHANGED corevars

\* TkDataPreparerApp(root): self.state = AppState(), the panels built with
\* the handlers as their callbacks, the handlers subscribed; the panel holds
\* a configuration object of its own and one frame is there to be loaded
InitWiring ==
    /\ heap = <<Frame(<<Str(<<"A">>), Str(<<"a">>)>>)>>
    /\ df = None
    /\ df0 = None
    /\ target_column = None
    /\ columns_to_clean = None
    /\ config = None
    /\ pc = "idle"
    /\ current_df = None
    /\ metrics = <<>>
    /\ result = None
    /\ stage_log = <<>>
    /\ configs = <<get_default, get_default, get_preset("minimal")>>
    /\ state = Some([AppState(1) EXCEPT !.observers = WiredObservers])
    /\ PRESET_CONFIGS = <<>>
    /\ panel = None
    /\ call = None
    /\ stack = <<>>

NextWiring ==
    \/ ConfigPanelReports
    \/ ColumnEditorReports
    \/ FileLoaderReports
    \/ HandlerCallsSetter
    \/ FileLoadedSetsColumns
    \/ SetterNotifies
    \/ NotifyCallsNext
    \/ HandlerUpdatesView
    \/ Return

SpecWiring == InitWiring /\ [][NextWiring]_vars

-----------------------------------------------------------------------------
(* app/components/config_panel.py: the ConfigPanel and the presets         *)

MaxPanelOperations == 2

\* str(n) and int(text) for the decimal texts of the model; int raises
\* ValueError (None here) for a text that is not a number
str_int(n) == IF n = None THEN <<"N", "o", "n", "e">> ELSE <<Digits[Get(n) + 1]>>

DigitValue(c) == (CHOOSE k \in 1..Len(Digits) : Digits[k] = c) - 1

RECURSIVE int(_)
int(text) ==
    IF text = <<>> \/ \E i \in 1..Len(text) : ~Contains(Digits, text[i]) THEN None
    ELSE IF Len(text) = 1 THEN Some(DigitValue(text[1]))
    ELSE Some(10 * Get(int(SubSeq(text, 1, Len(text) - 1))) + DigitValue(text[Len(text)]))

\* value or 'none', and back
OrNone(o) == IF o = None THEN "none" ELSE Get(o)

UnlessNone(v) == IF v = "none" THEN None ELSE Some(v)

\* the Tk variables as _setup_*_tab creates them from the panel's config
PanelVariables(p) ==
    [strip_var |-> Get(p.cleaning).strip,
     collapse_var |-> Get(p.cleaning).collapse_whitespace,
     case_var |-> OrNone(Get(p.cleaning).case),
     unicode_var |-> OrNone(Get(p.cleaning).unicode_normalization),
     empty_na_var |-> Get(p.cleaning).empty_to_na,
     filtering_enabled_var |-> p.filtering # None,
     min_length_var |-> IF Truthy(p.filtering) THEN str_int(Get(p.filtering).min_length)
                        ELSE str_int(Some(3)),
     drop_na_var |-> IF Truthy(p.filtering) THEN Get(p.filtering).drop_na ELSE TRUE,
     deduplication_enabled_var |-> p.deduplication # None,
     keep_var |-> IF Truthy(p.deduplication) THEN Get(p.deduplication).keep ELSE "first",
     case_sensitive_var |-> IF Truthy(p.deduplication)
                            THEN Get(p.deduplication).case_sensitive ELSE FALSE,
     normalize_unicode_var |-> IF Truthy(p.deduplication)
                               THEN Get(p.deduplication).normalize_unicode ELSE FALSE]

\* ConfigPanel(parent, on_config_change): self.config is the object config_ref
ConfigPanel(config_ref, p) == [config |-> config_ref, tk |-> PanelVariables(p)]

\* _update_ui_from_config: the variables of a stage that is None keep
\* their values, but for the two enabling checkboxes
_update_ui_from_config(tk, p) ==
    [tk EXCEPT
        !.strip_var = Get(p.cleaning).strip,
        !.collapse_var = Get(p.cleaning).collapse_whitespace,
        !.case_var = OrNone(Get(p.cleaning).case),
        !.unicode_var = OrNone(Get(p.cleaning).unicode_normalization),
        !.empty_na_var = Get(p.cleaning).empty_to_na,
        !.filtering_enabled_var = p.filtering # None,
        !.min_length_var = IF Truthy(p.filtering)
                           THEN str_int(Get(p.filtering).min_length) ELSE @,
        !.drop_na_var = IF Truthy(p.filtering) THEN Get(p.filtering).drop_na ELSE @,
        !.deduplication_enabled_var = p.deduplication # None,
        !.keep_var = IF Truthy(p.deduplication) THEN Get(p.deduplication).keep ELSE @,
        !.case_sensitive_var = IF Truthy(p.deduplication)
                               THEN Get(p.deduplication).case_sensitive ELSE @,
        !.normalize_unicode_var = IF Truthy(p.deduplication)
                                  THEN Get(p.deduplication).normalize_unicode ELSE @]

\* the three stage configs _update_config_from_ui builds from the variables
ConfigFromUi(tk) ==
    PipelineConfig(
        Some(CleanConfig(tk.strip_var, tk.collapse_var, UnlessNone(tk.unicode_var),
                         UnlessNone(tk.case_var), FALSE, FALSE, tk.empty_na_var)),
        IF tk.filtering_enabled_var
        THEN Some(FilterConfig(IF int(tk.min_length_var) = None THEN Some(3)
                               ELSE int(tk.min_length_var),
                               tk.drop_na_var))
        ELSE None,
        IF tk.deduplication_enabled_var
        THEN Some(DedupConfig(tk.keep_var, tk.case_sensitive_var,
                              tk.normalize_unicode_var))
        ELSE None)

\* _update_config_from_ui: the three fields of self.config.pipeline are
\* assigned, in the object self.config refers to
_update_config_from_ui(cfgs, ref, tk) ==
    [cfgs EXCEPT ![ref] = AppConfig(ConfigFromUi(tk))]

\* what `call` keeps of a panel operation: its name and argument, the number
\* of operations so far, and the config object handed to on_config_change
PanelCall(op, data, count, received) ==
    [op |-> op, data |-> data, count |-> count, received |-> received]

Operations == IF call = None THEN 0 ELSE Get(call).count

\* _on_config_change, for a panel whose config is ref and whose variables
\* are tk: the config is rebuilt from the variables and handed to the callback
_on_config_change(cfgs, ref, tk, op, data) ==
    /\ configs' = _update_config_from_ui(cfgs, ref, tk)
    /\ panel' = Some([config |-> ref, tk |-> tk])
    /\ call' = Some(PanelCall(op, data, Operations + 1, Some(ref)))
    /\ UNCHANGED <<state, PRESET_CONFIGS, stack>>
    /\ UNCHANGED corevars

\* the values the widgets of the panel give to their variables ("x" is a
\* text typed into the spinbox that is no number)
WidgetValues ==
    [strip_var |-> BOOLEAN, collapse_var |-> BOOLEAN,
     case_var |-> {"none", "lower", "upper", "title"},
     unicode_var |-> {"none", "NFC", "NFD", "NFKC", "NFKD"},
     empty_na_var |-> BOOLEAN, filtering_enabled_var |-> BOOLEAN,
     min_length_var |-> {<<"2">>, <<"x">>}, drop_na_var |-> BOOLEAN,
     deduplication_enabled_var |-> BOOLEAN,
     keep_var |-> {"first", "last", "none"},
     case_sensitive_var |-> BOOLEAN, normalize_unicode_var |-> BOOLEAN]

\* the user changes one setting: the widget sets its variable and calls
\* _on_config_change (the two enabling checkboxes through _toggle_*)
WidgetChanged ==
    /\ Operations < MaxPanelOperations
    /\ \E v \in DOMAIN WidgetValues :
          \E value \in WidgetValues[v] \ {Get(panel).tk[v]} :
              _on_config_change(configs, Get(panel).config,
                                [Get(panel).tk EXCEPT ![v] = value], v, value)

\* the keys of the four preset buttons
PresetKeys == {"customer_data", "product_catalog", "minimal", "default"}

\* _apply_preset, given the object the panel's config now refers to
PresetApplied(cfgs, ref, preset_key) ==
    _on_config_change(cfgs, ref,
                      _update_ui_from_config(Get(panel).tk, cfgs[ref].pipeline),
                      "_apply_preset", preset_key)

\* _apply_preset(preset_key): 'default' makes a new AppConfig.get_default(),
\* any other key takes the object stored in PRESET_CONFIGS
ApplyPreset ==
    /\ Operations < MaxPanelOperations
    /\ \E preset_key \in PresetKeys :
          IF preset_key = "default"
          THEN PresetApplied(Append(configs, get_default), Len(configs) + 1, preset_key)
          ELSE PresetApplied(configs, PRESET_CONFIGS[preset_key], preset_key)

\* after import of core.config and ConfigPanel(parent, callback):
\* DEFAULT_CONFIG, the three objects of PRESET_CONFIGS and the panel's own
\* AppConfig.get_default()
InitPanel ==
    /\ heap = <<>>
    /\ df = None
    /\ df0 = None
    /\ target_column = None
    /\ columns_to_clean = None
    /\ config = None
    /\ pc = "idle"
    /\ current_df = None
    /\ metrics = <<>>
    /\ result = None
    /\ stage_log = <<>>
    /\ configs = <<get_default, get_preset("customer_data"),
                   get_preset("product_catalog"), get_preset("minimal"), get_default>>
    /\ PRESET_CONFIGS = [customer_data |-> 2, product_catalog |-> 3, minimal |-> 4]
    /\ panel = Some(ConfigPanel(5, get_default.pipeline))
    /\ state = None
    /\ call = None
    /\ stack = <<>>

NextPanel ==
    \/ WidgetChanged
    \/ ApplyPreset

SpecPanel == InitPanel /\ [][NextPanel]_vars

-----------------------------------------------------------------------------
(* app/services/pipeline_service.py: PipelineService                       *)

\* the last step, in the order the steps were stored, whose metrics hold
\* remaining_rows gives final_rows; initial_rows when no step does
FinalRows(m, initial_rows) ==
    IF "deduplication" \in DOMAIN m /\ "remaining_rows" \in DOMAIN m.deduplication
    THEN m.deduplication.remaining_rows
    ELSE IF "filtering" \in DOMAIN m /\ "remaining_rows" \in DOMAIN m.filtering
    THEN m.filtering.remaining_rows
    ELSE IF "cleaning" \in DOMAIN m /\ "remaining_rows" \in DOMAIN m.cleaning
    THEN m.cleaning.remaining_rows
    ELSE initial_rows

\* round(removed / initial_rows * 100, 1), kept in tenths of a percent
ReductionPercentage(removed, initial_rows) ==
    IF initial_rows > 0 THEN (2000 * removed + initial_rows) \div (2 * initial_rows)
    ELSE 0

\* _enhance_metrics: the metrics of run plus the five summary entries
_enhance_metrics(m, initial_rows, execution_time) ==
    [initial_rows |-> initial_rows,
     final_rows |-> FinalRows(m, initial_rows),
     execution_time |-> execution_time,
     total_removed |-> initial_rows - FinalRows(m, initial_rows),
     reduction_percentage |->
        ReductionPercentage(initial_rows - FinalRows(m, initial_rows), initial_rows)]
    @@ m

\* what `call` keeps of execute_pipeline(data, config): its two arguments
ServiceCall(data, c) == [op |-> "execute_pipeline", data |-> data, config |-> c]

\* execute_pipeline(data, config) up to its call of self.pipeline.run: the
\* first column is the target, every column is to be cleaned
ExecutePipeline ==
    /\ pc = "service"
    /\ \E c \in PipelineConfigs : call' = Some(ServiceCall(df, c))
    /\ target_column' = IF ~empty(heap[df]) THEN heap[df].columns[1] ELSE ""
    /\ columns_to_clean' = Some(heap[df].columns)
    /\ pc' = "start"
    /\ UNCHANGED <<heap, df, df0, config, current_df, metrics, result, stage_log>>
    /\ UNCHANGED <<state, configs, PRESET_CONFIGS, panel, stack>>

\* execute_pipeline after run returned: the time is taken (in whole
\* milliseconds here) and result.metrics replaced by the enhanced metrics
ExecuteReturn ==
    /\ pc = "done"
    /\ call # None
    /\ \E execution_time \in {0, 1} :
          result' = Some([Get(result) EXCEPT
                            !.metrics = _enhance_metrics(@, len(df0), execution_time)])
    /\ pc' = "executed"
    /\ UNCHANGED <<heap, df, df0, target_column, columns_to_clean, config,
                   current_df, metrics, stage_log>>
    /\ UNCHANGED appvars

\* PipelineService(): self.pipeline = DataPreparationPipeline(PipelineConfig()),
\* and the data the caller is about to pass
InitService ==
    /\ \E d \in PipelineFrames : /\ heap = <<d>>
                                 /\ df0 = d
    /\ df = 1
    /\ target_column = None
    /\ columns_to_clean = None
    /\ config = PipelineConfig(None, None, None)
    /\ pc = "service"
    /\ current_df = None
    /\ metrics = <<>>
    /\ result = None
    /\ stage_log = <<>>
    /\ NoApplication

NextService ==
    \/ ExecutePipeline
    \/ RunBegin
    \/ RunCleaning
    \/ RunFiltering
    \/ RunDeduplication
    \/ RunReturn
    \/ ExecuteReturn

SpecService == InitService /\ [][NextService]_vars

-----------------------------------------------------------------------------
(* Properties                                                              *)

\* what the call returned, and the frame it returned
Res == Get(result)

Out == heap[Res.dataframe]

\* the direct call of op has ended
Called(op) ==
    /\ pc \in {"returned", "raised"}
    /\ stage_log[1].stage = op

Returned(op) == Called(op) /\ Res.status = "ok"

FilterCfg == Get(config.filtering)

DedupCfg == Get(config.deduplication)

NameOf(r) == r.cells["name"]

\* the input row at position i is among the returned rows
Survives(i) == \E k \in 1..len(Out) : Out.rows[k] = df0.rows[i]

Survivors == {i \in 1..len(df0) : Survives(i)}

RECURSIVE IsSubsequence(_, _)
IsSubsequence(s, t) ==
    IF s = <<>> THEN TRUE
    ELSE IF t = <<>> THEN FALSE
    ELSE IF Head(s) = Head(t) THEN IsSubsequence(Tail(s), Tail(t))
    ELSE IsSubsequence(s, Tail(t))

StageNames == {"cleaning", "filtering", "deduplication"}

\* C1: when run returns, the keys of its metrics map are exactly the stages
\* whose config is not None; a config with default values counts as set.
C1_MetricsKeysAreConfiguredStages ==
    pc = "done" =>
        /\ Res.status = "ok"
        /\ DOMAIN Res.metrics \subseteq StageNames
        /\ \A st \in StageNames : st \in DOMAIN Res.metrics <=> config[st] # None

C1_Witness ==
    /\ pc = "done"
    /\ config.cleaning = None
    /\ config.filtering = Some(FilterConfig(None, FALSE))
    /\ config.deduplication # None
    /\ DOMAIN Res.metrics = {"filtering", "deduplication"}

\* the rows a length filter of threshold m keeps when missing rows are kept:
\* the missing ones and those whose text has at least m code points
KeptByLength(m) ==
    SelectSeq(df0.rows, LAMBDA r : isna(NameOf(r)) \/ Len(NameOf(r).s) >= m)

\* C2: with min_length = m and drop_na = False, filter_by_length keeps a row
\* iff its value is missing or its text has length >= m; on the example
\* column m = 3 leaves 5 rows (the missing one among them, Lu removed) and
\* m = 4 leaves 4 rows (Ana and Lu removed).
C2_FilterKeepsMissingOrLongEnough ==
    (Called("filter_by_length") /\ FilterCfg.min_length # None /\ ~FilterCfg.drop_na) =>
        /\ Res.status = "ok"
        /\ Out.rows = KeptByLength(Get(FilterCfg.min_length))
        /\ (df0 = FilterExample /\ FilterCfg.min_length = Some(3)) =>
              /\ len(Out) = 5
              /\ Survivors = {1, 2, 3, 4, 5}
        /\ (df0 = FilterExample /\ FilterCfg.min_length = Some(4)) =>
              /\ len(Out) = 4
              /\ Survivors = {1, 2, 4, 5}

C2_Witness ==
    /\ Returned("filter_by_length")
    /\ df0 = FilterExample
    /\ FilterCfg = FilterConfig(Some(3), FALSE)
    /\ len(Out) = 5
    /\ isna(NameOf(Out.rows[5]))

\* C3: with drop_na = True and any min_length, filter_by_length removes no
\* row whose value is missing; only non-missing rows shorter than
\* min_length are removed.
C3_DropNaNeverRemovesMissing ==
    (Called("filter_by_length") /\ FilterCfg.min_length # None /\ FilterCfg.drop_na) =>
        /\ Res.status = "ok"
        /\ Out.rows = KeptByLength(Get(FilterCfg.min_length))

\* the positions of the input rows whose comparison key is that of row i
SameKey(i) ==
    {j \in 1..len(df0) :
        DedupKey(NameOf(df0.rows[j]), DedupCfg) = DedupKey(NameOf(df0.rows[i]), DedupCfg)}

Min(S) == CHOOSE x \in S : \A y \in S : x <= y

Max(S) == CHOOSE x \in S : \A y \in S : x >= y

\* C4: with keep = "first" remove_duplicates retains, of the rows of each
\* comparison key, exactly the earliest one, with keep = "last" exactly the
\* latest one; every key of the input has exactly one surviving row.
C4_KeepFirstOrLastPerKey ==
    (Called("remove_duplicates") /\ DedupCfg.keep \in {"first", "last"}) =>
        /\ Res.status = "ok"
        /\ len(Out) = Cardinality(Survivors)
        /\ \A i \in 1..len(df0) :
              /\ Cardinality(SameKey(i) \cap Survivors) = 1
              /\ Survives(i) <=>
                    i = (IF DedupCfg.keep = "first" THEN Min(SameKey(i))
                         ELSE Max(SameKey(i)))

C4_Witness ==
    /\ Returned("remove_duplicates")
    /\ DedupCfg.keep = "last"
    /\ len(df0) = 3
    /\ SameKey(1) = {1, 3}
    /\ Survivors = {2, 3}

\* C5: with keep = "none" remove_duplicates returns a result, in which
\* every row whose key occurs more than once is removed and every row whose
\* key occurs once is kept.
C5_KeepNoneRemovesAllDuplicated ==
    (Called("remove_duplicates") /\ DedupCfg.keep = "none") =>
        /\ Res.status = "ok"
        /\ \A i \in 1..len(df0) : Survives(i) <=> SameKey(i) = {i}

\* the comparison key as the claim C6 words it: the value as text,
\* lower-cased when case_sensitive is False
TextKey(v, cfg) ==
    IF cfg.case_sensitive THEN astype_str(v) ELSE str_lower(astype_str(v))

\* the same, NFKC-normalised when normalize_unicode is True
NormalisedTextKey(v, cfg) ==
    IF cfg.normalize_unicode THEN NFKC(TextKey(v, cfg)) ELSE TextKey(v, cfg)

\* with keep "first" or "last": two rows never both survive when Key makes
\* them equal, and there are as many survivors as distinct keys
DuplicatesAreEqualKeys(Key(_, _)) ==
    /\ \A i, j \in Survivors :
          i # j => Key(NameOf(df0.rows[i]), DedupCfg) # Key(NameOf(df0.rows[j]), DedupCfg)
    /\ Cardinality(Survivors)
          = Cardinality({Key(NameOf(df0.rows[i]), DedupCfg) : i \in 1..len(df0)})

\* on the example addresses with keep = "first": 3 rows remain when
\* case-insensitive, 4 when case-sensitive
DedupExampleCounts ==
    (df0 = DedupExample /\ DedupCfg.keep = "first") =>
        /\ ~DedupCfg.case_sensitive =>
              len(Out) = 3 /\ Res.metrics.removed_duplicates = 2
        /\ DedupCfg.case_sensitive =>
              len(Out) = 4 /\ Res.metrics.removed_duplicates = 1

\* C6 as stated: rows are duplicates iff their keys are equal, the key being
\* the value as text, lower-cased when case_sensitive is False.
C6_DuplicatesByTextKey ==
    (Returned("remove_duplicates") /\ DedupCfg.keep \in {"first", "last"}) =>
        /\ DuplicatesAreEqualKeys(TextKey)
        /\ DedupExampleCounts

\* C6 as amended: rows are duplicates iff their keys are equal, the key being
\* the value as text, lower-cased when case_sensitive is False and
\* NFKC-normalised when normalize_unicode is True; the example counts hold.
C6_DuplicatesByNormalisedKey ==
    (Returned("remove_duplicates") /\ DedupCfg.keep \in {"first", "last"}) =>
        /\ DuplicatesAreEqualKeys(NormalisedTextKey)
        /\ DedupExampleCounts

C6_Witness ==
    /\ Returned("remove_duplicates")
    /\ df0 = DedupExample
    /\ DedupCfg = DedupConfig("first", FALSE, FALSE)
    /\ Survivors = {1, 2, 4}

\* C7: the rows remove_duplicates returns are a subsequence of its input
\* rows, each with every column value as in the input, and the columns are
\* those of the input.
C7_DedupReturnsSubsequence ==
    Returned("remove_duplicates") =>
        /\ IsSubsequence(Out.rows, df0.rows)
        /\ Out.columns = df0.columns

\* a surviving row whose key differs from its stored value, after a removal
C7_Witness ==
    /\ Returned("remove_duplicates")
    /\ 0 < len(Out) /\ len(Out) < len(df0)
    /\ \E k \in 1..len(Out) :
          /\ NameOf(Out.rows[k]) = Str(<<"A">>)
          /\ DedupKey(NameOf(Out.rows[k]), DedupCfg) = <<"a">>

StageRank(stage) ==
    CASE stage = "copy" -> 0
      [] stage = "cleaning" -> 1
      [] stage = "filtering" -> 2
      [] stage = "deduplication" -> 3

InRun == stage_log # <<>> /\ stage_log[1].stage = "copy"

\* C8: within a run the stages execute in the order cleaning, filtering,
\* deduplication, none twice, and each receives the output of the stage
\* executed before it, the first one the copy of the caller's frame.
C8_StagesInOrderOnPreviousOutput ==
    InRun =>
        /\ stage_log[1].input = df
        /\ stage_log[1].before = df0
        /\ heap[stage_log[1].output] = df0
        /\ \A i \in 2..Len(stage_log) :
              /\ StageRank(stage_log[i].stage) > StageRank(stage_log[i - 1].stage)
              /\ stage_log[i].input = stage_log[i - 1].output
              /\ config[stage_log[i].stage] # None

C8_Witness ==
    /\ pc = "done"
    /\ Len(stage_log) = 4
    /\ len(heap[stage_log[3].output]) < len(heap[stage_log[3].input])

\* C9: no call changes the frame it is given (the caller's frame, and the
\* frame each stage of a run receives), and the frame run returns is an
\* object other than the caller's.
C9_InputsUnchangedResultDistinct ==
    /\ heap[df] = df0
    /\ \A i \in 1..Len(stage_log) : heap[stage_log[i].input] = stage_log[i].before
    /\ pc = "done" => Res.dataframe # df

C9_Witness ==
    /\ pc = "done"
    /\ config = PipelineConfig(None, None, None)
    /\ len(df0) > 0
    /\ Res.dataframe # df
    /\ Out = df0

\* C10: filter_by_length and remove_duplicates return at most as many rows
\* as they receive, so in a run the row count never grows from stage to
\* stage and the final count is at most the input count.
C10_RowCountNeverGrows ==
    /\ \A i \in 1..Len(stage_log) :
          stage_log[i].status = "ok" =>
              len(heap[stage_log[i].output]) <= len(stage_log[i].before)
    /\ pc \in {"done", "returned"} => len(Out) <= len(df0)

C10_Witness ==
    /\ pc = "done"
    /\ Len(stage_log) = 3
    /\ stage_log[2].stage = "filtering"
    /\ len(heap[stage_log[2].output]) < len(stage_log[2].before)
    /\ len(heap[stage_log[3].output]) < len(stage_log[3].before)

\* C11: clean_columns, filter_by_length and remove_duplicates each return a
\* frame with the column names of their input, in the same order, whatever
\* the column names of the input are.
C11_ColumnNamesUnchanged ==
    (pc = "returned"
     /\ stage_log[1].stage \in {"clean_columns", "filter_by_length", "remove_duplicates"})
        => Out.columns = df0.columns

CleanCfg == Get(config.cleaning)

\* the cells of the input frame: a row position and a column name
Cells == {<<i, c>> : i \in 1..len(df0), c \in Range(df0.columns)}

In(cell) == df0.rows[cell[1]].cells[cell[2]]

After(cell) == Out.rows[cell[1]].cells[cell[2]]

\* the text of a non-missing value after the steps collapse, strip,
\* normalise, transliterate and case, before empty_to_na acts
TextAfterSteps(v, cfg) == CleanS2(CleanS1(Str(astype_str(v)), cfg), cfg).s

\* C12: clean_columns leaves every missing cell missing, for every
\* CleanConfig and also in a numeric column it coerces; a non-missing cell
\* becomes missing only when empty_to_na is set and its text after the
\* cleaning steps is empty.
C12_MissingnessPreserved ==
    Called("clean_columns") =>
        /\ Res.status = "ok"
        /\ len(Out) = len(df0)
        /\ \A cell \in Cells :
              /\ isna(In(cell)) => isna(After(cell))
              /\ (~isna(In(cell)) /\ isna(After(cell))) =>
                    /\ CleanCfg.empty_to_na
                    /\ TextAfterSteps(In(cell), CleanCfg) = <<>>

\* a coerced numeric column keeps its NaN, and a blank text became missing
C12_Witness ==
    /\ Returned("clean_columns")
    /\ CleanCfg.coerce_non_strings
    /\ columns_to_clean # None
    /\ len(df0) = 2
    /\ In(<<2, "age">>) = NaN /\ isna(After(<<2, "age">>))
    /\ After(<<1, "age">>) = Str(<<"1", ".", "0">>)
    /\ In(<<1, "name">>) = Str(<<" ", "nbsp">>) /\ isna(After(<<1, "name">>))
    /\ In(<<2, "name">>) = PyNone /\ isna(After(<<2, "name">>))

\* C13: with empty_to_na set, the metric empty_strings_to_na is the number
\* of cells that were not missing in the input and are missing in the
\* output; cells already missing in the input are not counted.
C13_EmptyToNaCountsConversionsOnly ==
    (Called("clean_columns") /\ CleanCfg.empty_to_na) =>
        /\ Res.status = "ok"
        /\ Res.metrics.empty_strings_to_na
              = Cardinality({cell \in Cells : ~isna(In(cell)) /\ isna(After(cell))})

\* the final value of the cell differs from the original one: one of the
\* two is missing and the other is not, or both are texts and differ
Differs(cell) ==
    \/ isna(In(cell)) # isna(After(cell))
    \/ (~isna(In(cell)) /\ ~isna(After(cell)) /\ After(cell).s # astype_str(In(cell)))

\* C14: the metric cells_modified is the number of cells whose final value
\* differs from the original one, a cell missing before and after not being
\* a change, a changed text and a change between text and missing both
\* being one.
C14_CellsModifiedCountsEveryChange ==
    Called("clean_columns") =>
        /\ Res.status = "ok"
        /\ Res.metrics.cells_modified = Cardinality({cell \in Cells : Differs(cell)})

\* the columns clean_columns operates on: those selected (the textual ones
\* when no list is given, else the listed ones the frame has) that are
\* textual or, with coerce_non_strings, of any type
ProcessedColumns ==
    {c \in Range(df0.columns) :
        /\ columns_to_clean # None => c \in Range(Get(columns_to_clean))
        /\ \/ df0.dtypes[c] \in {"object", "string"}
           \/ (columns_to_clean # None /\ CleanCfg.coerce_non_strings)}

\* the whitespace code points of a text that collapse and strip leave: with
\* collapse only the first of each run, with strip only those that have a
\* non-whitespace code point before and after them
WsLeft(s, cfg) ==
    Cardinality({i \in 1..Len(s) :
        /\ s[i] \in Whitespace
        /\ cfg.collapse_whitespace => (i = 1 \/ s[i - 1] \notin Whitespace)
        /\ cfg.strip => /\ \E j \in 1..(i - 1) : s[j] \notin Whitespace
                        /\ \E j \in (i + 1)..Len(s) : s[j] \notin Whitespace})

\* what one cell contributes to the whitespace metric
WsRemovedIn(cell) ==
    IF cell[2] \notin ProcessedColumns \/ isna(In(cell)) THEN 0
    ELSE Cardinality({i \in 1..Len(astype_str(In(cell))) :
                         astype_str(In(cell))[i] \in Whitespace})
         - WsLeft(astype_str(In(cell)), CleanCfg)

\* C15: total_whitespace_removed is the sum, over the cells of the processed
\* columns, of the whitespace code points before collapse and strip minus
\* those after them, whatever unicode_normalization, transliterate_ascii
\* and case are; the example cell becomes 'Joao Silva' (with the tilde) and
\* contributes 6 - 1 = 5.
C15_WhitespaceRemovedFromCollapseAndStrip ==
    Called("clean_columns") =>
        /\ Res.status = "ok"
        /\ Res.metrics.total_whitespace_removed
              = SumOver([cell \in Cells |-> WsRemovedIn(cell)], Cells)
        /\ (df0 = CleanExample /\ CleanCfg.strip /\ CleanCfg.collapse_whitespace) =>
              /\ Res.metrics.total_whitespace_removed = 5
              /\ (CleanCfg.case = None /\ ~CleanCfg.transliterate_ascii) =>
                    After(<<1, "name">>)
                        = Str(<<"J", "o", "a_tilde", "o", " ", "S", "i", "l", "v", "a">>)

C15_Witness ==
    /\ Returned("clean_columns")
    /\ df0 = CleanExample
    /\ CleanCfg.strip /\ CleanCfg.collapse_whitespace
    /\ CleanCfg.transliterate_ascii /\ CleanCfg.case = Some("upper")
    /\ Res.metrics.total_whitespace_removed = 5
    /\ After(<<1, "name">>) = Str(<<"J", "O", "A", "O", " ", "S", "I", "L", "V", "A">>)

\* the frames the first and the second call of clean_columns returned
FirstOut == heap[stage_log[1].output]

SecondOut == heap[stage_log[2].output]

\* C16: for every frame and every CleanConfig with empty_to_na set,
\* clean_columns applied to its own output with the same config and columns
\* returns a frame equal to that output.
C16_CleaningIsIdempotent ==
    (pc = "returned_again" /\ CleanCfg.empty_to_na) =>
        /\ SecondOut.columns = FirstOut.columns
        /\ SecondOut.rows = FirstOut.rows

Textual(c) == df0.dtypes[c] \in {"object", "string"}

TextualColumns == SelectSeq(df0.columns, Textual)

\* the column is as it was: same dtype, same values
Untouched(c) ==
    /\ Out.dtypes[c] = df0.dtypes[c]
    /\ Column(Out, c) = Column(df0, c)

\* the column was coerced to text and cleaned: a textual dtype, each number
\* as its text after the cleaning steps, each missing value still missing
Coerced(c) ==
    /\ Out.dtypes[c] \in {"object", "string"}
    /\ \A i \in 1..len(df0) :
          IF isna(In(<<i, c>>)) THEN isna(After(<<i, c>>))
          ELSE After(<<i, c>>) = Str(TextAfterSteps(In(<<i, c>>), CleanCfg))

\* C17 as stated: with the columns omitted the textual columns are selected,
\* and a numeric column is left untouched unless coerce_non_strings is set,
\* in which case it is coerced to text and cleaned, missing preserved.
C17_OmittedColumnsCoerceNumeric ==
    (Called("clean_columns") /\ columns_to_clean = None) =>
        /\ Res.metrics.columns_processed = TextualColumns
        /\ \A c \in Range(df0.columns) :
              ~Textual(c) =>
                  IF CleanCfg.coerce_non_strings THEN Coerced(c) ELSE Untouched(c)

\* C17 as amended: with the columns omitted the textual columns are selected
\* and a numeric column is left untouched whatever coerce_non_strings is; a
\* numeric column named in the columns is coerced to text and cleaned,
\* missing preserved, when coerce_non_strings is set, and left untouched
\* when it is not.
C17_NamedColumnsCoerceNumeric ==
    Called("clean_columns") =>
        /\ Res.status = "ok"
        /\ columns_to_clean = None => Res.metrics.columns_processed = TextualColumns
        /\ \A c \in Range(df0.columns) :
              ~Textual(c) =>
                  IF /\ columns_to_clean # None
                     /\ c \in Range(Get(columns_to_clean))
                     /\ CleanCfg.coerce_non_strings
                  THEN Coerced(c) ELSE Untouched(c)

C17_Witness ==
    /\ Returned("clean_columns")
    /\ columns_to_clean = Some(<<"name", "age", "email">>)
    /\ CleanCfg.coerce_non_strings
    /\ len(df0) = 2
    /\ df0.dtypes["age"] = "float64"
    /\ Out.dtypes["age"] \in {"object", "string"}
    /\ After(<<1, "age">>) = Str(<<"1", ".", "0">>)
    /\ In(<<2, "age">>) = NaN /\ After(<<2, "age">>) = NA

\* C18: columns_processed lists exactly the columns operated on: not a
\* requested column the frame lacks, not a non-textual column skipped
\* because coerce_non_strings is false, and every column that was cleaned.
C18_ColumnsProcessedAreTheCleanedOnes ==
    Called("clean_columns") =>
        /\ Res.status = "ok"
        /\ Range(Res.metrics.columns_processed) = ProcessedColumns

\* C19: when the target column is absent from the frame and a filtering or
\* a deduplication config is set, run raises and returns no PipelineResult,
\* for every FilterConfig and every DedupConfig.
C19_AbsentTargetColumnFailsRun ==
    (/\ InRun
     /\ ~HasColumn(df0, target_column)
     /\ (config.filtering # None \/ config.deduplication # None))
        => /\ pc # "done"
           /\ pc = "raised" => Res.status = "KeyError"

\* C20: a FilterConfig with a negative min_length is rejected when it is
\* constructed, so filter_by_length never accepts and applies one.
C20_NegativeMinLengthRejected ==
    (/\ Called("filter_by_length")
     /\ FilterCfg.min_length # None
     /\ Get(FilterCfg.min_length) < 0)
        => Res.status # "ok"

NotMissingRows == SelectSeq(df0.rows, LAMBDA r : ~isna(r.cells[target_column]))

\* C22: drop_na_rows returns exactly the input rows whose value in the
\* column is not missing, in their order, whatever FilterConfig exists;
\* removed_rows is the number of missing rows and remaining_rows the number
\* of rows returned.
C22_DropNaRowsRemovesExactlyMissing ==
    Called("drop_na_rows") =>
        /\ Res.status = "ok"
        /\ Out.rows = NotMissingRows
        /\ \A k \in 1..len(Out) : ~isna(NameOf(Out.rows[k]))
        /\ Res.metrics.removed_rows
              = Cardinality({i \in 1..len(df0) : isna(NameOf(df0.rows[i]))})
        /\ Res.metrics.remaining_rows = len(Out)

C22_Witness ==
    /\ Returned("drop_na_rows")
    /\ df0 = FilterExample
    /\ len(Out) = 5
    /\ Res.metrics.removed_rows = 1
    /\ Survivors = {1, 2, 3, 4, 6}

\* C23: remove_duplicates never takes a row whose value is missing and a
\* row whose value is a text for duplicates of each other: a removed row
\* has its key in common with another row of its own kind (both missing,
\* or both texts).
C23_MissingNeverDuplicateOfText ==
    (Returned("remove_duplicates") /\ DedupCfg.keep \in KeepValues) =>
        \A i \in 1..len(df0) :
            ~Survives(i) =>
                \E j \in SameKey(i) \ {i} :
                    isna(NameOf(df0.rows[j])) = isna(NameOf(df0.rows[i]))

\* C24: every metrics record of filter_by_length, with or without a
\* threshold, contains removed_rows and remaining_rows, and every record of
\* remove_duplicates removed_duplicates and remaining_rows; the removed
\* count is input rows minus output rows and remaining_rows is the number
\* of rows returned.
C24_MetricsCountRows ==
    /\ Returned("filter_by_length") =>
          /\ {"removed_rows", "remaining_rows"} \subseteq DOMAIN Res.metrics
          /\ Res.metrics.removed_rows = len(df0) - len(Out)
          /\ Res.metrics.remaining_rows = len(Out)
    /\ Returned("remove_duplicates") =>
          /\ {"removed_duplicates", "remaining_rows"} \subseteq DOMAIN Res.metrics
          /\ Res.metrics.removed_duplicates = len(df0) - len(Out)
          /\ Res.metrics.remaining_rows = len(Out)

\* -- AppState ---------------------------------------------------------------

\* the operation called last
LastCall == Get(call)

\* the operations that emit an event
Emitting == {"set_data", "set_config", "set_columns", "set_pipeline_result", "reset"}

Emitted(op) == call # None /\ LastCall.op = op

\* the callbacks subscribed to the event when the operation was called
SubscribedTo(c) ==
    IF c.event \in DOMAIN c.observers THEN c.observers[c.event] ELSE <<>>

\* C25: each AppState operation that emits an event delivers it to every
\* callback subscribed to that event, once per subscription and in
\* subscription order, with the payload, and to no other callback; a
\* callback that raises does not stop the delivery and no exception reaches
\* the caller of the operation.
C25_EverySubscriberNotifiedInOrder ==
    (call # None /\ LastCall.op \in Emitting) =>
        /\ Len(LastCall.received) = Len(SubscribedTo(LastCall))
        /\ \A i \in 1..Len(LastCall.received) :
              /\ LastCall.received[i].callback = SubscribedTo(LastCall)[i]
              /\ LastCall.received[i].event = LastCall.event
              /\ LastCall.received[i].data = LastCall.data
        /\ LastCall.raised = None

\* the subscriptions of obs other than the callback that unsubscribes itself
Lasting(obs) ==
    [e \in DOMAIN obs |->
        SelectSeq(obs[e], LAMBDA callback : callback # "one_shot_callback")]

\* C30: a stored pipeline result never outlives its data: set_data and
\* reset clear it, so that it is set (has_processed_data) only if
\* set_pipeline_result was called after the last of them; reset returns
\* current_data, current_columns and current_filepath to their initial
\* values; neither of the two removes a subscribed observer.
C30_ResultNeverOutlivesData ==
    /\ call = None => St.pipeline_result = None
    /\ call # None =>
        /\ LastCall.op \in {"set_data", "reset"} =>
              /\ St.pipeline_result = None
              /\ ~has_processed_data(St)
              /\ Lasting(St.observers) = Lasting(LastCall.observers)
        /\ St.pipeline_result # None =>
              \/ LastCall.op = "set_pipeline_result"
              \/ /\ LastCall.op \notin {"set_data", "reset"}
                 /\ LastCall.previous_result = St.pipeline_result
        /\ LastCall.op = "reset" =>
              /\ St.current_data = None
              /\ St.current_columns = <<>>
              /\ St.current_filepath = None

\* new data was set while a result was stored and an observer subscribed
C30_Witness ==
    /\ Emitted("set_data")
    /\ LastCall.previous_result # None
    /\ St.pipeline_result = None
    /\ has_data(St, heap)
    /\ Subscriptions(St.observers) > 0

\* -- the wiring -------------------------------------------------------------

\* the calls of the handler in progress, each called from the one below
Nested(handler) == Cardinality({i \in 1..Len(stack) : stack[i].fn = handler})

\* C29: handling one configuration change or one column-selection change
\* makes a bounded number of AppState.set_config / set_columns calls,
\* because the handlers subscribed to 'config_changed' and
\* 'columns_changed' do not emit again the event they are handling: the
\* handler is never called from within its own handling, and one reported
\* change makes one setter call.
C29_HandlersDoNotEmitAgain ==
    /\ Nested("_on_config_changed") <= 1
    /\ Nested("_on_columns_changed") <= 1
    /\ (call # None /\ LastCall.op \in {"_on_config_changed", "_on_columns_changed"}) =>
          LastCall.calls <= 1

\* -- the presets and the ConfigPanel -----------------------------------------

\* the declared domains of the config fields
CaseDomain == {None, Some("lower"), Some("upper")}

FormDomain == {None, Some("NFC"), Some("NFKC"), Some("NFD"), Some("NFKD")}

InDomain(p) ==
    /\ p.cleaning # None => /\ Get(p.cleaning).case \in CaseDomain
                            /\ Get(p.cleaning).unicode_normalization \in FormDomain
    /\ p.deduplication # None => Get(p.deduplication).keep \in KeepValues

ThePanel == Get(panel)

\* C26: every named preset (default, customer_data, product_catalog,
\* minimal) gives a configuration whose fields hold values of their
\* declared domains: case in {None, lower, upper}, unicode_normalization in
\* {None, NFC, NFKC, NFD, NFKD}, keep one of the three strategies; seen on
\* the panel right after the preset was applied as its first operation.
C26_PresetFieldsInDomain ==
    (call # None /\ LastCall.op = "_apply_preset" /\ LastCall.count = 1) =>
        /\ InDomain(get_preset(LastCall.data).pipeline)
        /\ InDomain(configs[ThePanel.config].pipeline)

\* C28: the named presets are constants under any sequence of panel
\* operations: the entries of PRESET_CONFIGS hold the values they had at
\* start-up, so applying a preset again yields the original configuration.
C28_PresetsAreConstant ==
    \A preset_key \in DOMAIN PRESET_CONFIGS :
        configs[PRESET_CONFIGS[preset_key]] = get_preset(preset_key)

\* -- the PipelineService -----------------------------------------------------

Executed == pc = "executed" /\ Res.status = "ok"

\* C27: execute_pipeline(data, config) applies the configuration passed to
\* it: every stage that is not None in that configuration is executed on
\* the data and its key is in the metrics of the result, and a stage that
\* is None in it is skipped.
C27_ServiceAppliesPassedConfig ==
    Executed =>
        \A stage \in StageNames :
            /\ LastCall.config[stage] # None <=> stage \in DOMAIN Res.metrics
            /\ LastCall.config[stage] # None <=>
                  \E i \in 1..Len(stage_log) : stage_log[i].stage = stage

=============================================================================
